---- MODULE Spec2Model ----
(***************************************************************************)
(* A model of the ocpi-tariffs pricing engine (crate ocpi-tariffs):        *)
(* the Pricer builder, time-zone resolution, tariff selection, session     *)
(* construction, restriction evaluation, step-size application and cost    *)
(* computation.                                                            *)
(*                                                                         *)
(* Representation of the numeric types:                                    *)
(*   DateTime       integer milliseconds (UTC)                             *)
(*   Duration,                                                             *)
(*   HoursDecimal   integer milliseconds                                   *)
(*   Kwh            integer count of 0.0001 kWh (KwhScale per kWh), the    *)
(*                  scale Number has after deserialization                 *)
(*   Money          integer count of 1/MoneyScale currency units; every    *)
(*                  product and quotient the pricer forms on the inputs    *)
(*                  of the model is exact at this scale                    *)
(*   Vat            integer percentage                                     *)
(*   Option<T>      <<>> for None and <<v>> for Some(v)                     *)
(* All values stay far below the saturation points of rust_decimal and of  *)
(* chrono::Duration; saturation itself is not represented.                 *)
(***************************************************************************)
EXTENDS Integers, Sequences, FiniteSets, TLC

VARIABLES cdr, supplied, pricer, result, warnings, unnormalized, at_end, validation

vars == <<cdr, supplied, pricer, result, warnings, unnormalized, at_end, validation>>

(***************************************************************************)
(* Option<T>                                                               *)
(***************************************************************************)
None == <<>>

Some(v) == <<v>>

IsSome(o) == o # <<>>

IsNone(o) == o = <<>>

Unwrap(o) == o[1]

UnwrapOr(o, d) == IF o = <<>> THEN d ELSE o[1]

Unit == <<>>

(***************************************************************************)
(* Bounds of the model                                                     *)
(***************************************************************************)
MaxTariffs == 2

MaxElements == 2

MaxPeriods == 2

(***************************************************************************)
(* Program constants                                                       *)
(***************************************************************************)
MILLIS_IN_SEC == 1000

MillisInHour == 3600000

WattHoursInKwh == 1000

KwhScale == 10000

VatDivisor == 100

MillisInDay == 24 * MillisInHour

MoneyScale == MillisInHour * VatDivisor

(***************************************************************************)
(* Number: the operations of types/number.rs the pricer uses               *)
(***************************************************************************)
\* checked_div(..).ceil(): the ceiling of the exact quotient a / b, b > 0
\* the quotient rounded down in place of Number::ceil
DivFloor(a, b) == a \div b

\* Number::checked_div followed by Number::ceil
DivCeil(a, b) == -((-a) \div b)

Min(a, b) == IF a <= b THEN a ELSE b

Max(a, b) == IF a >= b THEN a ELSE b

(***************************************************************************)
(* Time zones: chrono_tz::Tz values are named by their IANA name.          *)
(* The model knows a few zones of the table, each with its standard-time   *)
(* offset from UTC.                                                        *)
(***************************************************************************)
KnownTimeZones == {"UTC", "Europe/Amsterdam", "Europe/Brussels", "Europe/Helsinki"}

\* str::parse::<Tz>(): Ok(tz) for a known zone name, Err otherwise
ParseTz(name) == IF name \in KnownTimeZones THEN Some(name) ELSE None

\* types/time.rs: try_detect_time_zone(country code), three rows of its table
try_detect_time_zone(code) ==
    CASE code = "NLD" -> Some("Europe/Amsterdam")
      [] code = "BEL" -> Some("Europe/Brussels")
      [] code = "FIN" -> Some("Europe/Helsinki")
      [] OTHER -> None

UtcOffset(tz) ==
    CASE tz = "UTC" -> 0
      [] tz = "Europe/Amsterdam" -> MillisInHour
      [] tz = "Europe/Brussels" -> MillisInHour
      [] tz = "Europe/Helsinki" -> 2 * MillisInHour

(***************************************************************************)
(* Time-zone resolution of Pricer::build_report                            *)
(* The result is [error, time_zone]: error is None or Some(name).          *)
(***************************************************************************)
\* time-zone resolution preferring the CDR's zone to the explicit one
ResolveTimeZoneCdrFirst(p, c) ==
    LET cdr_tz == c.cdr_location.time_zone
    IN  IF IsSome(cdr_tz)
        THEN IF IsSome(ParseTz(Unwrap(cdr_tz)))
             THEN [error |-> None, time_zone |-> ParseTz(Unwrap(cdr_tz))]
             ELSE [error |-> Some("TimeZoneInvalid"), time_zone |-> None]
        ELSE IF IsSome(p.time_zone)
        THEN [error |-> None, time_zone |-> p.time_zone]
        ELSE IF p.detect_time_zone
                /\ IsSome(try_detect_time_zone(c.cdr_location.country))
        THEN [error |-> None,
              time_zone |-> try_detect_time_zone(c.cdr_location.country)]
        ELSE [error |-> Some("TimeZoneMissing"), time_zone |-> None]

\* Pricer::build_report, lines 92-102
ResolveTimeZone(p, c) ==
    LET cdr_tz == c.cdr_location.time_zone
    IN  IF IsSome(p.time_zone)
        THEN [error |-> None, time_zone |-> p.time_zone]
        ELSE IF IsSome(cdr_tz)
        THEN IF IsSome(ParseTz(Unwrap(cdr_tz)))
             THEN [error |-> None, time_zone |-> ParseTz(Unwrap(cdr_tz))]
             ELSE [error |-> Some("TimeZoneInvalid"), time_zone |-> None]
        ELSE IF p.detect_time_zone
        THEN IF IsSome(try_detect_time_zone(c.cdr_location.country))
             THEN [error |-> None,
                   time_zone |-> try_detect_time_zone(c.cdr_location.country)]
             ELSE [error |-> Some("TimeZoneMissing"), time_zone |-> None]
        ELSE [error |-> Some("TimeZoneMissing"), time_zone |-> None]

(***************************************************************************)
(* session.rs: PeriodData, InstantData, ChargePeriod, ChargeSession        *)
(***************************************************************************)
PeriodDataEmpty ==
    [max_current |-> None, min_current |-> None, max_power |-> None,
     min_power |-> None, charging_duration |-> None, parking_duration |-> None,
     reservation_duration |-> None, energy |-> None]

PeriodDataSet(inst, dimension) ==
    CASE dimension.type = "MIN_CURRENT" -> [inst EXCEPT !.min_current = Some(dimension.volume)]
      [] dimension.type = "MAX_CURRENT" -> [inst EXCEPT !.max_current = Some(dimension.volume)]
      [] dimension.type = "MAX_POWER" -> [inst EXCEPT !.max_power = Some(dimension.volume)]
      [] dimension.type = "MIN_POWER" -> [inst EXCEPT !.min_power = Some(dimension.volume)]
      [] dimension.type = "ENERGY" -> [inst EXCEPT !.energy = Some(dimension.volume)]
      [] dimension.type = "TIME" -> [inst EXCEPT !.charging_duration = Some(dimension.volume)]
      [] dimension.type = "PARKING_TIME" ->
            [inst EXCEPT !.parking_duration = Some(dimension.volume)]
      [] dimension.type = "RESERVATION_TIME" ->
            [inst EXCEPT !.reservation_duration = Some(dimension.volume)]

RECURSIVE PeriodDataFold(_, _, _)
PeriodDataFold(inst, dimensions, i) ==
    IF i > Len(dimensions)
    THEN inst
    ELSE PeriodDataFold(PeriodDataSet(inst, dimensions[i]), dimensions, i + 1)

\* PeriodData::new
PeriodDataNew(period) == PeriodDataFold(PeriodDataEmpty, period.dimensions, 1)

\* InstantData::zero
InstantDataZero(date_time, local_timezone) ==
    [local_timezone |-> local_timezone, date_time |-> date_time,
     total_charging_duration |-> 0, total_duration |-> 0, total_energy |-> 0]

\* InstantData::next
InstantDataNext(self, state, date_time) ==
    [local_timezone |-> self.local_timezone,
     date_time |-> date_time,
     total_duration |-> self.total_duration + (date_time - self.date_time),
     total_charging_duration |->
        IF IsSome(state.charging_duration)
        THEN self.total_charging_duration + Unwrap(state.charging_duration)
        ELSE self.total_charging_duration,
     total_energy |->
        IF IsSome(state.energy)
        THEN self.total_energy + Unwrap(state.energy)
        ELSE self.total_energy]

\* InstantData::local_time, local_date, local_weekday (0 = Monday)
LocalMillis(instant) == instant.date_time + UtcOffset(instant.local_timezone)

local_time(instant) == LocalMillis(instant) % MillisInDay

local_date(instant) == LocalMillis(instant) \div MillisInDay

\* day 0 (1970-01-01) is a Thursday
local_weekday(instant) == (local_date(instant) + 3) % 7

\* ChargePeriod::new
ChargePeriodNew(local_timezone, period, end_date_time) ==
    LET charge_state == PeriodDataNew(period)
        start_instant == InstantDataZero(period.start_date_time, local_timezone)
    IN  [period_data |-> charge_state,
         start_instant |-> start_instant,
         end_instant |-> InstantDataNext(start_instant, charge_state, end_date_time)]

\* the next period starting from zeroed counters
ChargePeriodNextZeroed(self, period, end_date_time) ==
    LET charge_state == PeriodDataNew(period)
        start_instant ==
            InstantDataZero(period.start_date_time, self.start_instant.local_timezone)
    IN  [period_data |-> charge_state,
         start_instant |-> start_instant,
         end_instant |-> InstantDataNext(start_instant, charge_state, end_date_time)]

\* ChargePeriod::next
ChargePeriodNext(self, period, end_date_time) ==
    LET charge_state == PeriodDataNew(period)
        start_instant == self.end_instant
    IN  [period_data |-> charge_state,
         start_instant |-> start_instant,
         end_instant |-> InstantDataNext(start_instant, charge_state, end_date_time)]

RECURSIVE SessionPeriods(_, _, _, _)
SessionPeriods(c, local_timezone, i, periods) ==
    IF i > Len(c.charging_periods)
    THEN periods
    ELSE LET period == c.charging_periods[i]
             end_date_time ==
                IF i + 1 <= Len(c.charging_periods)
                THEN c.charging_periods[i + 1].start_date_time
                ELSE c.end_date_time
             next ==
                IF periods # <<>>
                THEN ChargePeriodNext(periods[Len(periods)], period, end_date_time)
                ELSE ChargePeriodNew(local_timezone, period, end_date_time)
         IN  SessionPeriods(c, local_timezone, i + 1, Append(periods, next))

\* ChargeSession::new
ChargeSessionNew(c, local_timezone) ==
    [periods |-> SessionPeriods(c, local_timezone, 1, <<>>),
     start_date_time |-> c.start_date_time]

(***************************************************************************)
(* restriction.rs                                                          *)
(***************************************************************************)
OcpiRestrictionNone ==
    [start_time |-> None, end_time |-> None, start_date |-> None, end_date |-> None,
     min_kwh |-> None, max_kwh |-> None, min_current |-> None, max_current |-> None,
     min_power |-> None, max_power |-> None, min_duration |-> None,
     max_duration |-> None, day_of_week |-> <<>>, reservation |-> None]

Restr(kind, v) == [kind |-> kind, v |-> v]

OptRestr(kind, o) == IF IsSome(o) THEN <<Restr(kind, Unwrap(o))>> ELSE <<>>

SeqRange(s) == {s[i] : i \in 1..Len(s)}

\* collect_restrictions, after the match on start_time and end_time
CollectRemaining(restriction) ==
    OptRestr("StartDate", restriction.start_date)
    \o OptRestr("EndDate", restriction.end_date)
    \o OptRestr("MinKwh", restriction.min_kwh)
    \o OptRestr("MaxKwh", restriction.max_kwh)
    \o OptRestr("MinCurrent", restriction.min_current)
    \o OptRestr("MaxCurrent", restriction.max_current)
    \o OptRestr("MinPower", restriction.min_power)
    \o OptRestr("MaxPower", restriction.max_power)
    \o OptRestr("MinDuration", restriction.min_duration)
    \o OptRestr("MaxDuration", restriction.max_duration)
    \o (IF restriction.day_of_week # <<>>
        THEN <<Restr("DayOfWeek", SeqRange(restriction.day_of_week))>>
        ELSE <<>>)

\* the collection that never wraps start_time and end_time
collect_restrictions_unwrapped(restriction) ==
    OptRestr("StartTime", restriction.start_time)
    \o OptRestr("EndTime", restriction.end_time)
    \o CollectRemaining(restriction)

\* the collection that also wraps when end_time equals start_time
collect_restrictions_wrapping_equal(restriction) ==
    (IF /\ IsSome(restriction.start_time)
        /\ IsSome(restriction.end_time)
        /\ Unwrap(restriction.end_time) <= Unwrap(restriction.start_time)
     THEN <<[kind |-> "WrappingTime",
             v |-> [start_time |-> Unwrap(restriction.start_time),
                    end_time |-> Unwrap(restriction.end_time)]]>>
     ELSE OptRestr("StartTime", restriction.start_time)
          \o OptRestr("EndTime", restriction.end_time))
    \o CollectRemaining(restriction)

\* the collection that keeps a reservation restriction
collect_restrictions_with_reservation(restriction) ==
    (IF /\ IsSome(restriction.start_time)
        /\ IsSome(restriction.end_time)
        /\ Unwrap(restriction.end_time) < Unwrap(restriction.start_time)
     THEN <<[kind |-> "WrappingTime",
             v |-> [start_time |-> Unwrap(restriction.start_time),
                    end_time |-> Unwrap(restriction.end_time)]]>>
     ELSE OptRestr("StartTime", restriction.start_time)
          \o OptRestr("EndTime", restriction.end_time))
    \o CollectRemaining(restriction)
    \o OptRestr("Reservation", restriction.reservation)

\* collect_restrictions
collect_restrictions(restriction) ==
    (IF /\ IsSome(restriction.start_time)
        /\ IsSome(restriction.end_time)
        /\ Unwrap(restriction.end_time) < Unwrap(restriction.start_time)
     THEN <<[kind |-> "WrappingTime",
             v |-> [start_time |-> Unwrap(restriction.start_time),
                    end_time |-> Unwrap(restriction.end_time)]]>>
     ELSE OptRestr("StartTime", restriction.start_time)
          \o OptRestr("EndTime", restriction.end_time))
    \o CollectRemaining(restriction)

\* the validity at an instant with the upper bounds taken as inclusive
instant_validity_upper_inclusive(r, instant) ==
    CASE r.kind = "WrappingTime" ->
            local_time(instant) >= r.v.start_time \/ local_time(instant) <= r.v.end_time
      [] r.kind = "StartTime" -> local_time(instant) >= r.v
      [] r.kind = "EndTime" -> local_time(instant) <= r.v
      [] r.kind = "StartDate" -> local_date(instant) >= r.v
      [] r.kind = "EndDate" -> local_date(instant) <= r.v
      [] r.kind = "MinKwh" -> instant.total_energy >= r.v
      [] r.kind = "MaxKwh" -> instant.total_energy <= r.v
      [] r.kind = "MinDuration" -> instant.total_duration >= r.v
      [] r.kind = "MaxDuration" -> instant.total_duration <= r.v
      [] r.kind = "DayOfWeek" -> local_weekday(instant) \in r.v
      [] OTHER -> TRUE

\* Restriction::instant_validity_exclusive
instant_validity_exclusive(r, instant) ==
    CASE r.kind = "WrappingTime" ->
            local_time(instant) >= r.v.start_time \/ local_time(instant) < r.v.end_time
      [] r.kind = "StartTime" -> local_time(instant) >= r.v
      [] r.kind = "EndTime" -> local_time(instant) < r.v
      [] r.kind = "StartDate" -> local_date(instant) >= r.v
      [] r.kind = "EndDate" -> local_date(instant) < r.v
      [] r.kind = "MinKwh" -> instant.total_energy >= r.v
      [] r.kind = "MaxKwh" -> instant.total_energy < r.v
      [] r.kind = "MinDuration" -> instant.total_duration >= r.v
      [] r.kind = "MaxDuration" -> instant.total_duration < r.v
      [] r.kind = "DayOfWeek" -> local_weekday(instant) \in r.v
      [] OTHER -> TRUE

\* chrono::Weekday::pred
WeekdayPred(weekday) == (weekday + 6) % 7

\* the validity at the end of a period without the allowance for midnight
instant_validity_inclusive_no_midnight(r, instant) ==
    CASE r.kind = "WrappingTime" ->
            local_time(instant) >= r.v.start_time \/ local_time(instant) < r.v.end_time
      [] r.kind = "EndTime" -> local_time(instant) <= r.v
      [] r.kind = "EndDate" -> local_date(instant) < r.v
      [] r.kind = "MinKwh" -> instant.total_energy >= r.v
      [] r.kind = "MaxKwh" -> instant.total_energy < r.v
      [] r.kind = "MinDuration" -> instant.total_duration >= r.v
      [] r.kind = "MaxDuration" -> instant.total_duration < r.v
      [] r.kind = "DayOfWeek" -> local_weekday(instant) \in r.v
      [] OTHER -> TRUE

\* Restriction::instant_validity_inclusive
instant_validity_inclusive(r, instant) ==
    CASE r.kind = "WrappingTime" ->
            local_time(instant) >= r.v.start_time \/ local_time(instant) < r.v.end_time
      [] r.kind = "EndTime" -> local_time(instant) <= r.v
      [] r.kind = "EndDate" ->
            LET is_before_end_date == local_date(instant) < r.v
                is_on_end_date == local_date(instant) = r.v
                is_at_midnight == local_time(instant) \div MILLIS_IN_SEC = 0
            IN  is_before_end_date \/ (is_on_end_date /\ is_at_midnight)
      [] r.kind = "MinKwh" -> instant.total_energy >= r.v
      [] r.kind = "MaxKwh" -> instant.total_energy < r.v
      [] r.kind = "MinDuration" -> instant.total_duration >= r.v
      [] r.kind = "MaxDuration" -> instant.total_duration < r.v
      [] r.kind = "DayOfWeek" ->
            LET includes_weekday == local_weekday(instant) \in r.v
                includes_day_before == WeekdayPred(local_weekday(instant)) \in r.v
                is_at_midnight == local_time(instant) \div MILLIS_IN_SEC = 0
            IN  includes_weekday \/ (includes_day_before /\ is_at_midnight)
      [] OTHER -> TRUE

\* Restriction::period_validity; the Reservation arm is todo!(), which
\* is_active_todo models
period_validity(r, state) ==
    CASE r.kind = "MinCurrent" ->
            IF IsSome(state.min_current) THEN Unwrap(state.min_current) >= r.v ELSE TRUE
      [] r.kind = "MaxCurrent" ->
            IF IsSome(state.max_current) THEN Unwrap(state.max_current) < r.v ELSE TRUE
      [] r.kind = "MinPower" ->
            IF IsSome(state.min_power) THEN Unwrap(state.min_power) >= r.v ELSE TRUE
      [] r.kind = "MaxPower" ->
            IF IsSome(state.max_power) THEN Unwrap(state.max_power) < r.v ELSE TRUE
      [] OTHER -> TRUE

(***************************************************************************)
(* tariff.rs                                                               *)
(***************************************************************************)
VatUnknown == [unknown |-> TRUE, vat |-> None]

\* CompatibilityVat::Vat(o), o an Option<Vat>
VatOf(o) == [unknown |-> FALSE, vat |-> o]

\* From<v211::OcpiPriceComponent> for v221::OcpiPriceComponent
PriceComponentFrom211(component) ==
    [component_type |-> component.component_type,
     price |-> component.price,
     step_size |-> component.step_size,
     vat |-> VatUnknown]

\* From<v211::OcpiTariffElement> for v221::OcpiTariffElement
TariffElementFrom211(element) ==
    [restrictions |-> element.restrictions,
     price_components |->
        [i \in 1..Len(element.price_components) |->
            PriceComponentFrom211(element.price_components[i])]]

\* From<v211::OcpiTariff> for v221::OcpiTariff
TariffFrom211(tariff) ==
    [id |-> tariff.id,
     elements |-> [i \in 1..Len(tariff.elements) |->
                        TariffElementFrom211(tariff.elements[i])],
     start_date_time |-> tariff.start_date_time,
     end_date_time |-> tariff.end_date_time]

\* PriceComponents::new
PriceComponentsNew == [flat |-> None, energy |-> None, parking |-> None, time |-> None]

\* PriceComponents::has_all_components
has_all_components(components) ==
    /\ IsSome(components.flat)
    /\ IsSome(components.energy)
    /\ IsSome(components.parking)
    /\ IsSome(components.time)

\* PriceComponent::new
PriceComponentNew(component, tariff_element_index) ==
    [tariff_element_index |-> tariff_element_index,
     price |-> component.price,
     vat |-> component.vat,
     step_size |-> component.step_size]

\* the insertion that lets a later component of a dimension replace the
\* earlier one
InsertComponentLast(components, ocpi_component, element_index) ==
    LET price_component == PriceComponentNew(ocpi_component, element_index)
    IN  CASE ocpi_component.component_type = "FLAT" ->
                [components EXCEPT !.flat = Some(price_component)]
          [] ocpi_component.component_type = "TIME" ->
                [components EXCEPT !.time = Some(price_component)]
          [] ocpi_component.component_type = "PARKING_TIME" ->
                [components EXCEPT !.parking = Some(price_component)]
          [] ocpi_component.component_type = "ENERGY" ->
                [components EXCEPT !.energy = Some(price_component)]

\* Option::get_or_insert on the field of the component's dimension
InsertComponent(components, ocpi_component, element_index) ==
    LET price_component == PriceComponentNew(ocpi_component, element_index)
    IN  CASE ocpi_component.component_type = "FLAT" ->
                IF IsNone(components.flat)
                THEN [components EXCEPT !.flat = Some(price_component)]
                ELSE components
          [] ocpi_component.component_type = "TIME" ->
                IF IsNone(components.time)
                THEN [components EXCEPT !.time = Some(price_component)]
                ELSE components
          [] ocpi_component.component_type = "PARKING_TIME" ->
                IF IsNone(components.parking)
                THEN [components EXCEPT !.parking = Some(price_component)]
                ELSE components
          [] ocpi_component.component_type = "ENERGY" ->
                IF IsNone(components.energy)
                THEN [components EXCEPT !.energy = Some(price_component)]
                ELSE components

RECURSIVE CollectComponents(_, _, _, _)
CollectComponents(components, price_components, element_index, i) ==
    IF i > Len(price_components)
    THEN components
    ELSE CollectComponents(
            InsertComponent(components, price_components[i], element_index),
            price_components, element_index, i + 1)

\* TariffElement::new
TariffElementNew(ocpi_element, element_index) ==
    [restrictions |->
        IF IsSome(ocpi_element.restrictions)
        THEN collect_restrictions(Unwrap(ocpi_element.restrictions))
        ELSE <<>>,
     components |->
        CollectComponents(PriceComponentsNew, ocpi_element.price_components,
                          element_index, 1)]

\* Tariff::new (element indexes count from 0)
TariffNew(tariff) ==
    [id |-> tariff.id,
     start_date_time |-> tariff.start_date_time,
     end_date_time |-> tariff.end_date_time,
     elements |-> [i \in 1..Len(tariff.elements) |->
                        TariffElementNew(tariff.elements[i], i - 1)]]

\* TariffElement::is_active
ElementIsActive(tariff_element, period) ==
    \A i \in 1..Len(tariff_element.restrictions) :
        /\ instant_validity_exclusive(tariff_element.restrictions[i], period.start_instant)
        /\ period_validity(tariff_element.restrictions[i], period.period_data)

\* TariffElement::is_active reaching the todo!() of period_validity: a
\* Reservation restriction is evaluated, every restriction before it holding
is_active_todo(tariff_element, period) ==
    \E i \in 1..Len(tariff_element.restrictions) :
        /\ tariff_element.restrictions[i].kind = "Reservation"
        /\ instant_validity_exclusive(tariff_element.restrictions[i], period.start_instant)
        /\ \A j \in 1..(i - 1) :
                /\ instant_validity_exclusive(tariff_element.restrictions[j],
                                              period.start_instant)
                /\ period_validity(tariff_element.restrictions[j], period.period_data)

\* TariffElement::is_active_at_end
is_active_at_end(tariff_element, period) ==
    \A i \in 1..Len(tariff_element.restrictions) :
        instant_validity_inclusive(tariff_element.restrictions[i], period.end_instant)

\* the scan with every component taken from the last active element that has it
FillComponentsOverwrite(components, tariff_element) ==
    [time |-> IF IsSome(tariff_element.components.time)
              THEN tariff_element.components.time ELSE components.time,
     parking |-> IF IsSome(tariff_element.components.parking)
                 THEN tariff_element.components.parking ELSE components.parking,
     energy |-> IF IsSome(tariff_element.components.energy)
                THEN tariff_element.components.energy ELSE components.energy,
     flat |-> IF IsSome(tariff_element.components.flat)
              THEN tariff_element.components.flat ELSE components.flat]

FillComponents(components, tariff_element) ==
    [time |-> IF IsNone(components.time)
              THEN tariff_element.components.time ELSE components.time,
     parking |-> IF IsNone(components.parking)
                 THEN tariff_element.components.parking ELSE components.parking,
     energy |-> IF IsNone(components.energy)
                THEN tariff_element.components.energy ELSE components.energy,
     flat |-> IF IsNone(components.flat)
              THEN tariff_element.components.flat ELSE components.flat]

RECURSIVE ActiveComponentsFrom(_, _, _, _)
ActiveComponentsFrom(components, elements, period, i) ==
    IF i > Len(elements)
    THEN components
    ELSE IF ~ElementIsActive(elements[i], period)
    THEN ActiveComponentsFrom(components, elements, period, i + 1)
    ELSE LET filled == FillComponents(components, elements[i])
         IN  IF has_all_components(filled)
             THEN filled
             ELSE ActiveComponentsFrom(filled, elements, period, i + 1)

RECURSIVE ActiveComponentsTodo(_, _, _, _)
ActiveComponentsTodo(components, elements, period, i) ==
    IF i > Len(elements)
    THEN FALSE
    ELSE IF is_active_todo(elements[i], period)
    THEN TRUE
    ELSE IF ~ElementIsActive(elements[i], period)
    THEN ActiveComponentsTodo(components, elements, period, i + 1)
    ELSE LET filled == FillComponents(components, elements[i])
         IN  IF has_all_components(filled)
             THEN FALSE
             ELSE ActiveComponentsTodo(filled, elements, period, i + 1)

\* Tariff::active_components panicking in the scan of the elements
active_components_todo(tariff, period) ==
    ActiveComponentsTodo(PriceComponentsNew, tariff.elements, period, 1)

\* Tariff::active_components
active_components(tariff, period) ==
    ActiveComponentsFrom(PriceComponentsNew, tariff.elements, period, 1)

\* Tariff::is_active with the end of the window taken as inclusive
TariffIsActiveInclusiveEnd(tariff, start_time) ==
    /\ IsSome(tariff.start_date_time) => start_time >= Unwrap(tariff.start_date_time)
    /\ IsSome(tariff.end_date_time) => start_time <= Unwrap(tariff.end_date_time)

\* Tariff::is_active
TariffIsActive(tariff, start_time) ==
    LET is_after_start ==
            IF IsSome(tariff.start_date_time)
            THEN start_time >= Unwrap(tariff.start_date_time) ELSE TRUE
        is_before_end ==
            IF IsSome(tariff.end_date_time)
            THEN start_time < Unwrap(tariff.end_date_time) ELSE TRUE
    IN  is_after_start /\ is_before_end

RECURSIVE FindActiveTariff(_, _, _)
FindActiveTariff(tariffs, start_date_time, i) ==
    IF i > Len(tariffs)
    THEN None
    ELSE IF TariffIsActive(TariffNew(tariffs[i]), start_date_time)
    THEN Some(<<i - 1, TariffNew(tariffs[i])>>)
    ELSE FindActiveTariff(tariffs, start_date_time, i + 1)

\* Pricer::first_active_tariff: None, or Some(<<index, tariff>>), index from 0
first_active_tariff(tariffs, start_date_time) ==
    FindActiveTariff(tariffs, start_date_time, 1)

(***************************************************************************)
(* types/money.rs, types/electricity.rs, types/time.rs                     *)
(***************************************************************************)
\* Kwh units in one watt hour
WhUnit == KwhScale \div WattHoursInKwh

\* Kwh::watt_hours(..).checked_div(step_size).ceil(): whole steps, rounded up
WattHourSteps(kwh, step_size) == DivCeil(kwh, step_size * WhUnit)

\* Kwh::from_watt_hours
from_watt_hours(wh) == wh * WhUnit

\* HoursDecimal::as_num_seconds_number(..).checked_div(step_size).ceil()
SecondSteps(hours, step_size) == DivCeil(hours, step_size * MILLIS_IN_SEC)

\* HoursDecimal::from_seconds_number
from_seconds_number(seconds) == seconds * MILLIS_IN_SEC

\* Money * Kwh
kwh_cost(price, kwh) == (price \div KwhScale) * kwh

\* Money * HoursDecimal: price * (milliseconds / 3_600_000)
time_cost(price, hours) == (price \div MillisInHour) * hours

\* Money * Vat: money * (vat / 100 + 1)
apply_vat(money, vat) == (money \div VatDivisor) * (vat + VatDivisor)

\* Price::zero, Price::default
PriceZero == [excl_vat |-> 0, incl_vat |-> Some(0)]

\* Price + Price with a missing incl_vat counted as zero
PriceAddInclOrZero(lhs, rhs) ==
    [excl_vat |-> lhs.excl_vat + rhs.excl_vat,
     incl_vat |-> IF IsNone(lhs.incl_vat) /\ IsNone(rhs.incl_vat)
                  THEN None
                  ELSE Some(UnwrapOr(lhs.incl_vat, 0) + UnwrapOr(rhs.incl_vat, 0))]

\* Price + Price
PriceAdd(lhs, rhs) ==
    [excl_vat |-> lhs.excl_vat + rhs.excl_vat,
     incl_vat |-> IF IsSome(lhs.incl_vat) /\ IsSome(rhs.incl_vat)
                  THEN Some(Unwrap(lhs.incl_vat) + Unwrap(rhs.incl_vat))
                  ELSE None]

(***************************************************************************)
(* pricer.rs: DimensionReport, Dimensions, PeriodReport                    *)
(***************************************************************************)
\* DimensionReport::new
DimensionReportNew(price_component, volume) ==
    [price |-> price_component, volume |-> volume, billed_volume |-> volume]

\* Dimension::cost for (), Kwh and HoursDecimal
DimensionCost(dim, volume, price) ==
    CASE dim = "flat" -> price
      [] dim = "energy" -> kwh_cost(price, volume)
      [] dim \in {"time", "parking_time"} -> time_cost(price, volume)

\* DimensionReport::cost taken over the volume in place of the billed volume
DimensionReportCostOfVolume(dim, report) ==
    IF IsSome(report.volume) /\ IsSome(report.price)
    THEN LET price == Unwrap(report.price)
             excl_vat == DimensionCost(dim, Unwrap(report.volume), price.price)
         IN  Some([excl_vat |-> excl_vat,
                   incl_vat |-> IF price.vat.unknown
                                THEN None
                                ELSE IF IsSome(price.vat.vat)
                                THEN Some(apply_vat(excl_vat, Unwrap(price.vat.vat)))
                                ELSE Some(excl_vat)])
    ELSE None

\* DimensionReport::cost
DimensionReportCost(dim, report) ==
    IF IsSome(report.billed_volume) /\ IsSome(report.price)
    THEN LET volume == Unwrap(report.billed_volume)
             price == Unwrap(report.price)
             excl_vat == DimensionCost(dim, volume, price.price)
             incl_vat ==
                IF price.vat.unknown
                THEN None
                ELSE IF IsSome(price.vat.vat)
                THEN Some(apply_vat(excl_vat, Unwrap(price.vat.vat)))
                ELSE Some(excl_vat)
         IN  Some([excl_vat |-> excl_vat, incl_vat |-> incl_vat])
    ELSE None

\* Dimensions::new
DimensionsNew(components, data) ==
    [parking_time |-> DimensionReportNew(components.parking, data.parking_duration),
     time |-> DimensionReportNew(components.time, data.charging_duration),
     energy |-> DimensionReportNew(components.energy, data.energy),
     flat |-> DimensionReportNew(components.flat, Some(Unit))]

\* PeriodReport::new
PeriodReportNew(period, dimensions) ==
    [start_date_time |-> period.start_instant.date_time,
     end_date_time |-> period.end_instant.date_time,
     dimensions |-> dimensions]

(***************************************************************************)
(* pricer.rs: StepSize                                                     *)
(***************************************************************************)
\* StepSize::new
StepSizeNew == [time |-> None, parking_time |-> None, energy |-> None]

\* the update that keeps the first period of each dimension
StepSizeUpdateFirst(self, index, components, period) ==
    [energy |->
        IF /\ IsNone(self.energy)
           /\ IsSome(period.period_data.energy) /\ IsSome(components.energy)
        THEN Some(<<index, Unwrap(components.energy)>>) ELSE self.energy,
     time |->
        IF /\ IsNone(self.time)
           /\ IsSome(period.period_data.charging_duration) /\ IsSome(components.time)
        THEN Some(<<index, Unwrap(components.time)>>) ELSE self.time,
     parking_time |->
        IF /\ IsNone(self.parking_time)
           /\ IsSome(period.period_data.parking_duration) /\ IsSome(components.parking)
        THEN Some(<<index, Unwrap(components.parking)>>) ELSE self.parking_time]

\* the update that does not look at the volumes of the period
StepSizeUpdateAnyPeriod(self, index, components, period) ==
    [energy |->
        IF IsSome(components.energy)
        THEN Some(<<index, Unwrap(components.energy)>>) ELSE self.energy,
     time |->
        IF IsSome(components.time)
        THEN Some(<<index, Unwrap(components.time)>>) ELSE self.time,
     parking_time |->
        IF IsSome(components.parking)
        THEN Some(<<index, Unwrap(components.parking)>>) ELSE self.parking_time]

\* StepSize::update (index counts from 0)
StepSizeUpdate(self, index, components, period) ==
    [energy |->
        IF IsSome(period.period_data.energy) /\ IsSome(components.energy)
        THEN Some(<<index, Unwrap(components.energy)>>) ELSE self.energy,
     time |->
        IF IsSome(period.period_data.charging_duration) /\ IsSome(components.time)
        THEN Some(<<index, Unwrap(components.time)>>) ELSE self.time,
     parking_time |->
        IF IsSome(period.period_data.parking_duration) /\ IsSome(components.parking)
        THEN Some(<<index, Unwrap(components.parking)>>) ELSE self.parking_time]

\* StepSize::duration_step_size: [total, period], the billed total and the new
\* value of *period_billed_volume
duration_step_size(total_volume, period_billed_volume, step_size) ==
    IF step_size > 0
    THEN LET total_billed_volume ==
                from_seconds_number(SecondSteps(total_volume, step_size) * step_size)
             period_delta_volume == total_billed_volume - total_volume
         IN  [total |-> total_billed_volume,
              period |-> period_billed_volume + period_delta_volume]
    ELSE [total |-> total_volume, period |-> period_billed_volume]

\* StepSize::apply_time without the test for a parking anchor
apply_time_always(self, periods, total) ==
    IF IsSome(self.time)
    THEN LET time_index == Unwrap(self.time)[1]
             volume == Unwrap(periods[time_index + 1].dimensions.time.billed_volume)
             r == duration_step_size(total, volume, Unwrap(self.time)[2].step_size)
         IN  [total |-> r.total,
              periods |-> [periods EXCEPT
                    ![time_index + 1].dimensions.time.billed_volume = Some(r.period)]]
    ELSE [total |-> total, periods |-> periods]

\* StepSize::apply_time: [total, periods]
apply_time(self, periods, total) ==
    IF IsSome(self.time) /\ IsNone(self.parking_time)
    THEN LET time_index == Unwrap(self.time)[1]
             price == Unwrap(self.time)[2]
             volume == Unwrap(periods[time_index + 1].dimensions.time.billed_volume)
             r == duration_step_size(total, volume, price.step_size)
         IN  [total |-> r.total,
              periods |-> [periods EXCEPT
                    ![time_index + 1].dimensions.time.billed_volume = Some(r.period)]]
    ELSE [total |-> total, periods |-> periods]

\* StepSize::apply_parking_time: [total, periods]
apply_parking_time(self, periods, total) ==
    IF IsSome(self.parking_time)
    THEN LET parking_index == Unwrap(self.parking_time)[1]
             price == Unwrap(self.parking_time)[2]
             volume ==
                Unwrap(periods[parking_index + 1].dimensions.parking_time.billed_volume)
             r == duration_step_size(total, volume, price.step_size)
         IN  [total |-> r.total,
              periods |-> [periods EXCEPT
                    ![parking_index + 1].dimensions.parking_time.billed_volume =
                        Some(r.period)]]
    ELSE [total |-> total, periods |-> periods]

\* StepSize::apply_energy giving the anchor period the whole billed total
apply_energy_total_to_anchor(self, periods, total_volume) ==
    IF IsSome(self.energy) /\ Unwrap(self.energy)[2].step_size > 0
    THEN LET energy_index == Unwrap(self.energy)[1]
             step_size == Unwrap(self.energy)[2].step_size
             total_billed_volume ==
                from_watt_hours(WattHourSteps(total_volume, step_size) * step_size)
         IN  [total |-> total_billed_volume,
              periods |-> [periods EXCEPT
                    ![energy_index + 1].dimensions.energy.billed_volume =
                        Some(total_billed_volume)]]
    ELSE [total |-> total_volume, periods |-> periods]

\* StepSize::apply_energy: [total, periods]
apply_energy(self, periods, total_volume) ==
    IF IsSome(self.energy) /\ Unwrap(self.energy)[2].step_size > 0
    THEN LET energy_index == Unwrap(self.energy)[1]
             step_size == Unwrap(self.energy)[2].step_size
             period_billed_volume ==
                Unwrap(periods[energy_index + 1].dimensions.energy.billed_volume)
             total_billed_volume ==
                from_watt_hours(WattHourSteps(total_volume, step_size) * step_size)
             period_delta_volume == total_billed_volume - total_volume
         IN  [total |-> total_billed_volume,
              periods |-> [periods EXCEPT
                    ![energy_index + 1].dimensions.energy.billed_volume =
                        Some(period_billed_volume + period_delta_volume)]]
    ELSE [total |-> total_volume, periods |-> periods]

(***************************************************************************)
(* pricer.rs: Pricer::build_report                                         *)
(***************************************************************************)
\* the flat fee kept in every period in which it is active
FlatFeeEveryPeriod(components, has_flat_fee) ==
    [components |-> components,
     has_flat_fee |-> has_flat_fee \/ IsSome(components.flat)]

\* the flat fee is charged once: [components, has_flat_fee]
FlatFeeOnce(components, has_flat_fee) ==
    IF IsSome(components.flat)
    THEN IF has_flat_fee
         THEN [components |-> [components EXCEPT !.flat = None], has_flat_fee |-> TRUE]
         ELSE [components |-> components, has_flat_fee |-> TRUE]
    ELSE [components |-> components, has_flat_fee |-> has_flat_fee]

LoopStart ==
    [periods |-> <<>>, step_size |-> StepSizeNew, total_energy |-> 0,
     total_charging_time |-> 0, total_parking_time |-> 0, has_flat_fee |-> FALSE]

\* one iteration of the loop over cdr.periods (index counts from 0)
LoopBody(st, tariff, index, period) ==
    LET once == FlatFeeOnce(active_components(tariff, period), st.has_flat_fee)
        components == once.components
        dimensions == DimensionsNew(components, period.period_data)
    IN  [periods |-> Append(st.periods, PeriodReportNew(period, dimensions)),
         step_size |-> StepSizeUpdate(st.step_size, index, components, period),
         total_charging_time |->
            st.total_charging_time + UnwrapOr(dimensions.time.volume, 0),
         total_energy |-> st.total_energy + UnwrapOr(dimensions.energy.volume, 0),
         total_parking_time |->
            st.total_parking_time + UnwrapOr(dimensions.parking_time.volume, 0),
         has_flat_fee |-> once.has_flat_fee]

RECURSIVE PeriodLoop(_, _, _, _)
PeriodLoop(st, tariff, periods, i) ==
    IF i > Len(periods)
    THEN st
    ELSE PeriodLoop(LoopBody(st, tariff, i - 1, periods[i]), tariff, periods, i + 1)

\* periods[index] is out of bounds, or the expect() on the billed_volume of
\* its dimension fails
NoVolumeAt(periods, index, dim) ==
    \/ index + 1 \notin 1..Len(periods)
    \/ IsNone(CASE dim = "time" -> periods[index + 1].dimensions.time.billed_volume
                [] dim = "energy" -> periods[index + 1].dimensions.energy.billed_volume
                [] dim = "parking_time" ->
                        periods[index + 1].dimensions.parking_time.billed_volume)

\* apply_time, apply_energy or apply_parking_time panicking on the anchor
ApplyPanics(self, periods) ==
    \/ /\ IsSome(self.time) /\ IsNone(self.parking_time)
       /\ NoVolumeAt(periods, Unwrap(self.time)[1], "time")
    \/ /\ IsSome(self.energy) /\ Unwrap(self.energy)[2].step_size > 0
       /\ NoVolumeAt(periods, Unwrap(self.energy)[1], "energy")
    \/ /\ IsSome(self.parking_time)
       /\ NoVolumeAt(periods, Unwrap(self.parking_time)[1], "parking_time")

\* the accumulation giving a total only when both sides are present
AddCostOfBoth(total, period) ==
    IF IsSome(total) /\ IsSome(period)
    THEN Some(PriceAdd(Unwrap(total), Unwrap(period)))
    ELSE None

\* the accumulation of one cost total: None while nothing contributed
AddCost(total, period) ==
    IF IsNone(total) /\ IsNone(period)
    THEN None
    ELSE Some(PriceAdd(UnwrapOr(total, PriceZero), UnwrapOr(period, PriceZero)))

DimensionOf(dimensions, dim) ==
    CASE dim = "flat" -> dimensions.flat
      [] dim = "energy" -> dimensions.energy
      [] dim = "time" -> dimensions.time
      [] dim = "parking_time" -> dimensions.parking_time

\* PeriodReport::cost: the fold over time, parking_time, flat and energy
PeriodReportCost(period) ==
    LET cost(dim) == DimensionReportCost(dim, DimensionOf(period.dimensions, dim))
    IN  AddCost(AddCost(AddCost(AddCost(None, cost("time")), cost("parking_time")),
                        cost("flat")), cost("energy"))

\* the total of one dimension left at the cost of the last period
TotalCostOfLast(total, periods, dim, i) ==
    IF periods = <<>>
    THEN total
    ELSE AddCost(total, DimensionReportCost(dim, DimensionOf(periods[Len(periods)].dimensions,
                                                             dim)))

RECURSIVE TotalCostOf(_, _, _, _)
TotalCostOf(total, periods, dim, i) ==
    IF i > Len(periods)
    THEN total
    ELSE TotalCostOf(
            AddCost(total, DimensionReportCost(dim, DimensionOf(periods[i].dimensions, dim))),
            periods, dim, i + 1)

\* total_time taken as the span of the last period alone
TotalTimeOfLastPeriod(periods) ==
    IF periods # <<>>
    THEN periods[Len(periods)].end_date_time - periods[Len(periods)].start_date_time
    ELSE 0

\* total_time: the span from the first period's start to the last period's end
TotalTime(periods) ==
    IF periods # <<>>
    THEN periods[Len(periods)].end_date_time - periods[1].start_date_time
    ELSE 0

\* the tariff choice falling back on the CDR's tariffs when no supplied
\* tariff is active
ActiveTariffWithFallback(p, c, start_date_time) ==
    IF IsSome(p.tariffs)
       /\ IsSome(first_active_tariff(Unwrap(p.tariffs), start_date_time))
    THEN first_active_tariff(Unwrap(p.tariffs), start_date_time)
    ELSE first_active_tariff(c.tariffs, start_date_time)

\* the tariff list in use and its first active tariff
ActiveTariff(p, c, start_date_time) ==
    IF IsSome(p.tariffs)
    THEN first_active_tariff(Unwrap(p.tariffs), start_date_time)
    ELSE IF c.tariffs # <<>>
    THEN first_active_tariff(c.tariffs, start_date_time)
    ELSE None

Err(name) == [error |-> Some(name), report |-> None]

\* build_report unwinding from a panic, neither Ok nor Err
Panic(message) == [error |-> None, report |-> None, panic |-> message]

\* the loop over the periods reaching the todo!() of period_validity
PeriodsTodo(session, tariff) ==
    \E i \in 1..Len(session.periods) : active_components_todo(tariff, session.periods[i])

\* the step sizes applied to an anchor that has no billed volume
StepSizePanics(session, tariff) ==
    \E st \in {PeriodLoop(LoopStart, tariff, session.periods, 1)} :
        ApplyPanics(st.step_size, st.periods)

\* the body of build_report once the zone and the tariff are known
PriceSession(session, time_zone, tariff_index, tariff) ==
    LET st == PeriodLoop(LoopStart, tariff, session.periods, 1)
        time == apply_time(st.step_size, st.periods, st.total_charging_time)
        energy == apply_energy(st.step_size, time.periods, st.total_energy)
        parking == apply_parking_time(st.step_size, energy.periods, st.total_parking_time)
        periods == parking.periods
        total_energy_cost == TotalCostOf(None, periods, "energy", 1)
        total_time_cost == TotalCostOf(None, periods, "time", 1)
        total_parking_cost == TotalCostOf(None, periods, "parking_time", 1)
        total_fixed_cost == TotalCostOf(None, periods, "flat", 1)
        total_cost ==
            AddCost(AddCost(AddCost(AddCost(None, total_time_cost), total_parking_cost),
                            total_fixed_cost), total_energy_cost)
    IN  [periods |-> periods,
         tariff_index |-> tariff_index,
         tariff_id |-> tariff.id,
         time_zone |-> time_zone,
         total_cost |-> total_cost,
         total_time_cost |-> total_time_cost,
         total_charging_time |-> st.total_charging_time,
         total_time |-> TotalTime(periods),
         total_parking_cost |-> total_parking_cost,
         total_parking_time |-> st.total_parking_time,
         total_energy_cost |-> total_energy_cost,
         total_energy |-> st.total_energy,
         total_fixed_cost |-> total_fixed_cost,
         billed_parking_time |-> parking.total,
         billed_energy |-> energy.total,
         billed_charging_time |-> time.total,
         total_reservation_cost |-> None]

\* build_report choosing the tariff before it resolves the time zone
build_report_tariff_first(p, c) ==
    LET zone == ResolveTimeZone(p, c)
        active == ActiveTariff(p, c, c.start_date_time)
    IN  IF IsNone(active)
        THEN Err("NoValidTariff")
        ELSE IF IsSome(zone.error)
        THEN Err(Unwrap(zone.error))
        ELSE [error |-> None,
              report |-> Some(PriceSession(ChargeSessionNew(c, Unwrap(zone.time_zone)),
                                           Unwrap(zone.time_zone),
                                           Unwrap(active)[1], Unwrap(active)[2]))]

\* Pricer::build_report: [error, report], exactly one of them Some, unless
\* the call panics
build_report(p, c) ==
    LET zone == ResolveTimeZone(p, c)
    IN  IF IsSome(zone.error)
        THEN Err(Unwrap(zone.error))
        ELSE LET time_zone == Unwrap(zone.time_zone)
                 session == ChargeSessionNew(c, time_zone)
                 active == ActiveTariff(p, c, session.start_date_time)
             IN  IF IsNone(active)
                 THEN Err("NoValidTariff")
                 ELSE IF PeriodsTodo(session, Unwrap(active)[2])
                 THEN Panic("not yet implemented")
                 ELSE IF StepSizePanics(session, Unwrap(active)[2])
                 THEN Panic("dimension should have a volume")
                 ELSE [error |-> None,
                       report |-> Some(PriceSession(session, time_zone,
                                                    Unwrap(active)[1], Unwrap(active)[2]))]

(***************************************************************************)
(* lint.rs: Range, constructors and the usefulness of a pattern            *)
(* A Decimal of the energy column counts 1/KwhScale kWh, as Kwh does.      *)
(***************************************************************************)
\* NaiveDate::MAX.num_days_from_ce()
MaxDaysFromCe == 95745399

\* the days from the common era to 1970-01-01, day 0 of local_date
EpochDaysFromCe == 719163

\* Range::new
RangeNew(lower, higher) == [lower |-> lower, higher |-> higher]

\* Range::wildcard
RangeWildcard == RangeNew(None, None)

\* Range::contains
RangeContains(self, other) ==
    /\ \/ IsNone(self.lower)
       \/ IsSome(other.lower) /\ Unwrap(self.lower) <= Unwrap(other.lower)
    /\ \/ IsNone(self.higher)
       \/ IsSome(other.higher) /\ Unwrap(self.higher) >= Unwrap(other.higher)

\* Point::NegInf, Point::Value and Point::PosInf of constructors, ordered as
\* the derived Ord orders them
NegInf == <<0, 0>>

PointValue(v) == <<1, v>>

PosInf == <<2, 0>>

PointLess(a, b) == a[1] < b[1] \/ (a[1] = b[1] /\ a[2] < b[2])

\* the two points of each range (the set has the effect of dedup)
PointsOf(ranges) ==
    UNION {{IF IsSome(r.lower) THEN PointValue(Unwrap(r.lower)) ELSE NegInf,
            IF IsSome(r.higher) THEN PointValue(Unwrap(r.higher)) ELSE PosInf} :
                r \in ranges}

\* points.sort()
RECURSIVE SortedPoints(_)
SortedPoints(S) ==
    IF S = {}
    THEN <<>>
    ELSE LET least == CHOOSE a \in S : \A b \in S \ {a} : PointLess(a, b)
         IN  <<least>> \o SortedPoints(S \ {least})

\* the range between two neighbouring points
RangeBetween(prev, point) ==
    RangeNew(IF prev[1] = 1 THEN Some(prev[2]) ELSE None,
             IF point[1] = 1 THEN Some(point[2]) ELSE None)

\* constructors: the ranges between neighbouring points, without the one
\* below the lower bound and the one above the higher bound
constructors(bounds, ranges) ==
    LET points == SortedPoints(PointsOf(ranges))
    IN  {RangeBetween(points[i - 1], points[i]) : i \in 2..Len(points)}
        \ ({r \in {RangeNew(None, bounds.lower)} : IsSome(bounds.lower)}
           \cup {r \in {RangeNew(bounds.higher, None)} : IsSome(bounds.higher)})

\* the bounds of lint_restrictions: energy, time in seconds from midnight,
\* date in days from CE, duration in milliseconds
LintBounds ==
    <<RangeNew(Some(0), None),
      RangeNew(Some(0), Some(60 * 60 * 24)),
      RangeNew(Some(0), Some(MaxDaysFromCe)),
      RangeNew(Some(0), None)>>

OptionMap(o, f(_)) == IF IsSome(o) THEN Some(f(Unwrap(o))) ELSE None

num_seconds_from_midnight(time) == time \div MILLIS_IN_SEC

num_days_from_ce(date) == date + EpochDaysFromCe

Identity(v) == v

\* Pattern::wildcard
PatternWildcard ==
    [columns |-> [c \in 1..4 |-> RangeWildcard],
     element_index |-> None, component_index |-> None]

\* Pattern::new
PatternNew(columns, element_index, component_index) ==
    [columns |-> columns,
     element_index |-> Some(element_index), component_index |-> Some(component_index)]

\* the pattern lint_restrictions adds for a unary element
PatternOf(element) ==
    IF IsNone(element.restrictions)
    THEN PatternNew([c \in 1..4 |-> RangeWildcard],
                    element.element_index, element.component_index)
    ELSE LET restr == Unwrap(element.restrictions)
         IN  PatternNew(
                <<RangeNew(restr.min_kwh, restr.max_kwh),
                  RangeNew(OptionMap(restr.start_time, num_seconds_from_midnight),
                           OptionMap(restr.end_time, num_seconds_from_midnight)),
                  RangeNew(OptionMap(restr.start_date, num_days_from_ce),
                           OptionMap(restr.end_date, num_days_from_ce)),
                  RangeNew(OptionMap(restr.min_duration, Identity),
                           OptionMap(restr.max_duration, Identity))>>,
                element.element_index, element.component_index)

\* Matrix::usefulness_rec: TRUE when it returns a witness.  consider is the
\* set of the patterns above still matching; columns count from 1
RECURSIVE usefulness_rec(_, _, _, _)
usefulness_rec(patterns, column, pattern, consider) ==
    IF column > Len(LintBounds)
    THEN consider = {}
    ELSE \E constr \in constructors(
                LintBounds[column],
                {patterns[i].columns[column] : i \in {pattern} \cup consider}
                    \cup {RangeWildcard}) :
            /\ RangeContains(patterns[pattern].columns[column], constr)
            /\ \E next_consider \in
                    {{i \in consider :
                        RangeContains(patterns[i].columns[column], constr)}} :
                    usefulness_rec(patterns, column + 1, pattern, next_consider)

\* Matrix::usefulness: is_usefull of the i-th pattern
is_usefull(patterns, i) == usefulness_rec(patterns, 1, i, 1..(i - 1))

(***************************************************************************)
(* lint.rs: lint and lint_restrictions; normalize.rs                       *)
(***************************************************************************)
ComponentIsRedundant(element_index, component_index) ==
    [kind |-> "ComponentIsRedundant", element_index |-> Some(element_index),
     component_index |-> Some(component_index), ty |-> None]

ElementIsRedundant(element_index) ==
    [kind |-> "ElementIsRedundant", element_index |-> Some(element_index),
     component_index |-> None, ty |-> None]

DimensionNotExhaustive(ty) ==
    [kind |-> "DimensionNotExhaustive", element_index |-> None,
     component_index |-> None, ty |-> Some(ty)]

\* the components of an element that are the first of their type
FirstOfType(element) ==
    {j \in 1..Len(element.price_components) :
        \A k \in 1..(j - 1) :
            element.price_components[k].component_type
                # element.price_components[j].component_type}

\* the warnings of the first loop of lint for one element (indexes from 0)
RECURSIVE ExpandComponents(_, _, _)
ExpandComponents(element, element_index, j) ==
    IF j > Len(element.price_components)
    THEN <<>>
    ELSE (IF j \in FirstOfType(element)
          THEN <<>>
          ELSE <<ComponentIsRedundant(element_index, j - 1)>>)
         \o ExpandComponents(element, element_index, j + 1)

RECURSIVE ExpandElements(_, _)
ExpandElements(tariff, i) ==
    IF i > Len(tariff.elements)
    THEN <<>>
    ELSE (IF tariff.elements[i].price_components = <<>>
          THEN <<ElementIsRedundant(i - 1)>>
          ELSE <<>>)
         \o ExpandComponents(tariff.elements[i], i - 1, 1)
         \o ExpandElements(tariff, i + 1)

\* the UnaryElements of one component type, in the order of the elements
RECURSIVE UnaryElements(_, _, _)
UnaryElements(tariff, type, i) ==
    IF i > Len(tariff.elements)
    THEN <<>>
    ELSE LET element == tariff.elements[i]
             found == {j \in FirstOfType(element) :
                            element.price_components[j].component_type = type}
         IN  (IF found = {}
              THEN <<>>
              ELSE <<[element_index |-> i - 1,
                      component_index |-> (CHOOSE j \in found : TRUE) - 1,
                      restrictions |-> element.restrictions]>>)
             \o UnaryElements(tariff, type, i + 1)

\* the patterns of lint_restrictions: one for each element, then the wildcard
LintPatterns(elements) ==
    [i \in 1..Len(elements) |-> PatternOf(elements[i])] \o <<PatternWildcard>>

RECURSIVE RedundantPatterns(_, _)
RedundantPatterns(patterns, i) ==
    IF i >= Len(patterns)
    THEN <<>>
    ELSE (IF is_usefull(patterns, i)
          THEN <<>>
          ELSE <<ComponentIsRedundant(Unwrap(patterns[i].element_index),
                                      Unwrap(patterns[i].component_index))>>)
         \o RedundantPatterns(patterns, i + 1)

\* lint_restrictions: the warnings it pushes
lint_restrictions(elements, ty) ==
    LET patterns == LintPatterns(elements)
    IN  RedundantPatterns(patterns, 1)
        \o (IF is_usefull(patterns, Len(patterns))
            THEN <<DimensionNotExhaustive(ty)>>
            ELSE <<>>)

\* the warnings of lint before elements are marked as a whole
ComponentWarnings(tariff) ==
    ExpandElements(tariff, 1)
    \o lint_restrictions(UnaryElements(tariff, "ENERGY", 1), "ENERGY")
    \o lint_restrictions(UnaryElements(tariff, "FLAT", 1), "FLAT")
    \o lint_restrictions(UnaryElements(tariff, "TIME", 1), "ENERGY")
    \o lint_restrictions(UnaryElements(tariff, "PARKING_TIME", 1), "PARKING_TIME")

\* the elements that have a redundant component
AnyRedundant(tariff) ==
    LET warns == ComponentWarnings(tariff)
    IN  {el \in 0..(Len(tariff.elements) - 1) :
            \E w \in 1..Len(warns) :
                /\ warns[w].kind = "ComponentIsRedundant"
                /\ warns[w].element_index = Some(el)}

\* the elements (indexes from 0) of which every component is redundant: the
\* keys of comp_counts with a count of 0
AllRedundant(tariff) ==
    LET warns == ComponentWarnings(tariff)
        count(el) ==
            Cardinality({w \in 1..Len(warns) :
                /\ warns[w].kind = "ComponentIsRedundant"
                /\ warns[w].element_index = Some(el)})
    IN  {el \in 0..(Len(tariff.elements) - 1) :
            count(el) > 0 /\ count(el) = Len(tariff.elements[el + 1].price_components)}

\* lint; order is the order in which comp_counts yields the elements of
\* AllRedundant
lint(tariff, order) ==
    LET Kept(w) ==
            ~(w.kind = "ComponentIsRedundant"
              /\ Unwrap(w.element_index) \in AllRedundant(tariff))
    IN  SelectSeq(ComponentWarnings(tariff), Kept)
        \o [i \in 1..Len(order) |-> ElementIsRedundant(order[i])]

\* the enumerations of a set without repetition
Orders(S) ==
    {order \in [1..Cardinality(S) -> S] :
        \A i, j \in 1..Cardinality(S) : i # j => order[i] # order[j]}

\* Vec::remove (index from 0)
Remove(seq, index) ==
    [i \in 1..(Len(seq) - 1) |-> IF i <= index THEN seq[i] ELSE seq[i + 1]]

\* sort_unstable followed by iter().rev() over pairs <<el, comp>>; an element
\* index alone is the pair <<el, 0>>
RECURSIVE SortedReverse(_)
SortedReverse(pairs) ==
    IF pairs = <<>>
    THEN <<>>
    ELSE LET greatest ==
                CHOOSE i \in 1..Len(pairs) :
                    \A j \in 1..Len(pairs) : ~PointLess(pairs[i], pairs[j])
         IN  <<pairs[greatest]>> \o SortedReverse(Remove(pairs, greatest - 1))

RECURSIVE RemoveComponents(_, _, _)
RemoveComponents(elements, pairs, i) ==
    IF i > Len(pairs)
    THEN elements
    ELSE RemoveComponents(
            [elements EXCEPT ![pairs[i][1] + 1].price_components =
                Remove(@, pairs[i][2])],
            pairs, i + 1)

RECURSIVE RemoveElements(_, _, _)
RemoveElements(elements, pairs, i) ==
    IF i > Len(pairs)
    THEN elements
    ELSE RemoveElements(Remove(elements, pairs[i][1]), pairs, i + 1)

\* normalize once lint has returned warns
NormalizeWith(tariff, warns) ==
    LET IsComponent(w) == w.kind = "ComponentIsRedundant"
        IsElement(w) == w.kind = "ElementIsRedundant"
        components == SelectSeq(warns, IsComponent)
        elements == SelectSeq(warns, IsElement)
        remove_components ==
            SortedReverse([i \in 1..Len(components) |->
                <<Unwrap(components[i].element_index),
                  Unwrap(components[i].component_index)>>])
        remove_elements ==
            SortedReverse([i \in 1..Len(elements) |->
                <<Unwrap(elements[i].element_index), 0>>])
        NotEmpty(v) == v.price_components # <<>>
    IN  [tariff EXCEPT !.elements =
            SelectSeq(RemoveElements(
                        RemoveComponents(tariff.elements, remove_components, 1),
                        remove_elements, 1),
                      NotEmpty)]

\* normalize: the tariff it leaves.  The order of lint's warnings has no
\* effect, the indexes being sorted
normalize(tariff) ==
    CHOOSE normalized \in
        {NormalizeWith(tariff, warns) :
            warns \in {lint(tariff, order) : order \in Orders(AllRedundant(tariff))}} :
        TRUE

(***************************************************************************)
(* The operations of the Pricer builder.  cdr is the CDR given to          *)
(* Pricer::new and supplied the tariff list the caller holds for           *)
(* with_tariffs; build_report consumes the pricer.                         *)
(***************************************************************************)
\* Pricer::new
PricerNew == [tariffs |-> None, time_zone |-> None, detect_time_zone |-> FALSE]

\* Pricer::with_tariffs
WithTariffs ==
    /\ IsNone(result)
    /\ pricer' = [pricer EXCEPT !.tariffs = Some(supplied)]
    /\ UNCHANGED <<cdr, supplied, result, warnings, unnormalized, at_end, validation>>

\* Pricer::with_time_zone
WithTimeZone(time_zone) ==
    /\ IsNone(result)
    /\ pricer' = [pricer EXCEPT !.time_zone = Some(time_zone)]
    /\ UNCHANGED <<cdr, supplied, result, warnings, unnormalized, at_end, validation>>

\* Pricer::detect_time_zone
DetectTimeZone(detect) ==
    /\ IsNone(result)
    /\ pricer' = [pricer EXCEPT !.detect_time_zone = detect]
    /\ UNCHANGED <<cdr, supplied, result, warnings, unnormalized, at_end, validation>>

\* Pricer::build_report
BuildReport ==
    /\ IsNone(result)
    /\ result' = Some(build_report(pricer, cdr))
    /\ UNCHANGED <<cdr, supplied, pricer, warnings, unnormalized, at_end, validation>>

\* lint applied to the caller's tariff: warnings holds the tariff linted and
\* the warnings returned
Lint ==
    /\ IsNone(warnings)
    /\ supplied # <<>>
    /\ \E order \in Orders(AllRedundant(supplied[1])) :
            warnings' = Some([tariff |-> supplied[1],
                              warnings |-> lint(supplied[1], order)])
    /\ UNCHANGED <<cdr, supplied, pricer, result, unnormalized, at_end, validation>>

\* normalize applied to the caller's tariffs before they are given to the
\* pricer; unnormalized keeps what they were
Normalize ==
    /\ IsNone(unnormalized)
    /\ IsNone(pricer.tariffs)
    /\ IsNone(result)
    /\ supplied # <<>>
    /\ unnormalized' = Some(supplied)
    /\ supplied' = [i \in 1..Len(supplied) |-> normalize(supplied[i])]
    /\ UNCHANGED <<cdr, pricer, result, warnings, at_end, validation>>

\* TariffElement::is_active and TariffElement::is_active_at_end evaluated for
\* one element of the tariff in use and one period of the priced session
IsActiveAtEnd ==
    /\ IsNone(at_end)
    /\ IsSome(result)
    /\ IsSome(Unwrap(result).report)
    /\ LET report == Unwrap(Unwrap(result).report)
           session == ChargeSessionNew(cdr, report.time_zone)
           tariffs == IF IsSome(pricer.tariffs) THEN Unwrap(pricer.tariffs) ELSE cdr.tariffs
           tariff == TariffNew(tariffs[report.tariff_index + 1])
       IN  \E i \in 1..Len(session.periods), k \in 1..Len(tariff.elements) :
                at_end' =
                    Some([period |-> i,
                          element |-> k,
                          is_active |->
                            ElementIsActive(tariff.elements[k], session.periods[i]),
                          is_active_at_end |->
                            is_active_at_end(tariff.elements[k], session.periods[i])])
    /\ UNCHANGED <<cdr, supplied, pricer, result, warnings, unnormalized, validation>>

(***************************************************************************)
(* cli.rs: the validate command                                            *)
(***************************************************************************)
\* TariffArgs::load_all: the pricer it builds from the CDR, the tariff file
\* (tariff, an Option) and the --timezone argument (timezone, an Option)
load_all_pricer(tariff, timezone) ==
    LET detecting == [PricerNew EXCEPT !.detect_time_zone = TRUE]
        with_tariffs ==
            IF IsSome(tariff)
            THEN [detecting EXCEPT !.tariffs = Some(<<Unwrap(tariff)>>)]
            ELSE detecting
    IN  IF IsSome(timezone)
        THEN [with_tariffs EXCEPT !.time_zone = timezone]
        ELSE with_tariffs

\* lhs.zip(rhs).map(|(l, r)| l == r).unwrap_or(true)
ZipEqual(lhs, rhs) ==
    IF IsSome(lhs) /\ IsSome(rhs) THEN Unwrap(lhs) = Unwrap(rhs) ELSE TRUE

\* the comparisons of Validate::run, in the order of the table
CompareTotals(report, c) ==
    <<report.total_time = c.total_time,
      IF IsSome(c.total_parking_time)
      THEN Unwrap(c.total_parking_time) = report.total_parking_time
      ELSE TRUE,
      report.total_energy = c.total_energy,
      IF IsSome(report.total_cost)
      THEN Unwrap(report.total_cost) = c.total_cost
      ELSE TRUE,
      ZipEqual(report.total_time_cost, c.total_time_cost),
      ZipEqual(report.total_fixed_cost, c.total_fixed_cost),
      ZipEqual(report.total_energy_cost, c.total_energy_cost),
      ZipEqual(report.total_parking_cost, c.total_parking_cost)>>

\* is_valid after `&=` with the i-th comparison and those that follow
RECURSIVE AndAssign(_, _, _)
AndAssign(is_valid, comparisons, i) ==
    IF i > Len(comparisons)
    THEN is_valid
    ELSE AndAssign(is_valid /\ comparisons[i], comparisons, i + 1)

\* is_valid at the end of Validate::run
validate_is_valid(report, c) == AndAssign(FALSE, CompareTotals(report, c), 1)

\* Validate::run with the CDR, the tariff file if one is supplied, and no or
\* one --timezone: the message printed and the exit status
Validate ==
    /\ IsNone(validation)
    /\ IsNone(result)
    /\ pricer = PricerNew
    /\ \E timezone \in {None, Some("UTC")} :
            \E loaded \in {load_all_pricer(IF supplied # <<>>
                                            THEN Some(supplied[1]) ELSE None, timezone)} :
                \E outcome \in {build_report(loaded, cdr)} :
                    /\ pricer' = loaded
                    /\ result' = Some(outcome)
                    /\ validation' =
                            Some(IF IsNone(outcome.report)
                                 THEN [message |-> "error", exit_code |-> 1]
                                 ELSE IF ~validate_is_valid(Unwrap(outcome.report), cdr)
                                 THEN [message |-> "does not match", exit_code |-> 1]
                                 ELSE [message |-> "matches", exit_code |-> 0])
    /\ UNCHANGED <<cdr, supplied, warnings, unnormalized, at_end>>

(***************************************************************************)
(* Inputs                                                                  *)
(***************************************************************************)
\* the sequences over S of length lo..hi
SeqsOf(S, lo, hi) == UNION {[1..n -> S] : n \in lo..hi}

SessionStart == 10 * MillisInHour

PeriodLength == 1800 * MILLIS_IN_SEC

Money1 == MoneyScale

OptDimension(type, volume) ==
    IF IsSome(volume) THEN <<[type |-> type, volume |-> Unwrap(volume)]>> ELSE <<>>

\* a charging period with optional Energy, Time and ParkingTime dimensions
MkPeriod(start_date_time, v) ==
    [start_date_time |-> start_date_time,
     dimensions |-> OptDimension("ENERGY", v[1]) \o OptDimension("TIME", v[2])
                    \o OptDimension("PARKING_TIME", v[3])]

\* a CDR whose periods follow each other every PeriodLength
MkCdr(location, volumes, tariffs) ==
    [start_date_time |-> SessionStart,
     end_date_time |-> SessionStart + Len(volumes) * PeriodLength,
     cdr_location |-> location,
     charging_periods |->
        [i \in 1..Len(volumes) |->
            MkPeriod(SessionStart + (i - 1) * PeriodLength, volumes[i])],
     tariffs |-> tariffs]

MkComponent(type, price, vat, step_size) ==
    [component_type |-> type, price |-> price, vat |-> vat, step_size |-> step_size]

MkElement(restrictions, price_components) ==
    [price_components |-> price_components, restrictions |-> restrictions]

MkTariff(id, start_date_time, end_date_time, elements) ==
    [id |-> id, start_date_time |-> start_date_time, end_date_time |-> end_date_time,
     elements |-> elements]

EnergyOnly == MkElement(None, <<MkComponent("ENERGY", Money1, VatOf(None), 0)>>)

\* validity windows around the session start: two that contain it (unbounded;
\* starting at it) and two that do not (starting after it; ending at it)
Windows ==
    {<<None, None>>, <<Some(SessionStart), Some(SessionStart + 1)>>,
     <<Some(SessionStart + 1), None>>, <<None, Some(SessionStart)>>}

TariffsOf(id) == {MkTariff(id, w[1], w[2], <<EnergyOnly>>) : w \in Windows}

TariffLists(id) == SeqsOf(TariffsOf(id), 0, MaxTariffs)

Locations ==
    {[country |-> c, time_zone |-> z] :
        c \in {"BEL", "USA"},
        z \in {None, Some("Europe/Amsterdam"), Some("Mars/Olympus_Mons")}}

OnePeriod == <<<<Some(5), None, None>>>>

(***************************************************************************)
(* Spec: the builder, time-zone resolution and tariff selection            *)
(***************************************************************************)
Init ==
    /\ \E location \in Locations, tariffs \in TariffLists("embedded") :
            cdr = MkCdr(location, OnePeriod, tariffs)
    /\ supplied \in TariffLists("supplied")
    /\ pricer = PricerNew
    /\ result = None
    /\ warnings = None
    /\ unnormalized = None
    /\ at_end = None
    /\ validation = None

Next ==
    \/ WithTariffs
    \/ WithTimeZone("UTC")
    \/ \E detect \in BOOLEAN : DetectTimeZone(detect)
    \/ BuildReport

Spec == Init /\ [][Next]_vars

(***************************************************************************)
(* Properties of Spec                                                      *)
(***************************************************************************)
Built == IsSome(result)

Outcome == Unwrap(result)

Report == Unwrap(Outcome.report)

TimeZoneErrors == {Some("TimeZoneMissing"), Some("TimeZoneInvalid")}

\* the tariff list build_report is to look at
TariffsInUse == IF IsSome(pricer.tariffs) THEN supplied ELSE cdr.tariffs

\* the half-open validity window of an OCPI tariff contains the CDR's start
WindowContainsStart(tariff) ==
    /\ \/ IsNone(tariff.start_date_time)
       \/ Unwrap(tariff.start_date_time) <= cdr.start_date_time
    /\ \/ IsNone(tariff.end_date_time)
       \/ cdr.start_date_time < Unwrap(tariff.end_date_time)

Qualifying(tariffs) == {i \in 1..Len(tariffs) : WindowContainsStart(tariffs[i])}

LowestOf(S) == CHOOSE i \in S : \A j \in S : i <= j

\* C1: once the zone is resolved, build_report prices with the lowest-index
\* tariff of the list in use whose window [start_date_time, end_date_time)
\* contains the CDR's start_date_time, a missing bound being unbounded;
\* tariff_index is that index counted from 0, and when no tariff of the list
\* qualifies the result is NoValidTariff.
C1_FirstActiveTariff ==
    (Built /\ Outcome.error \notin TimeZoneErrors) =>
        IF Qualifying(TariffsInUse) = {}
        THEN Outcome.error = Some("NoValidTariff") /\ IsNone(Outcome.report)
        ELSE /\ IsSome(Outcome.report)
             /\ Report.tariff_index = LowestOf(Qualifying(TariffsInUse)) - 1

\* the first tariff ends exactly at the session start and is passed over, the
\* second starts exactly at it and is selected
C1_Witness ==
    /\ Built
    /\ IsSome(Outcome.report)
    /\ Len(TariffsInUse) = 2
    /\ TariffsInUse[1].end_date_time = Some(cdr.start_date_time)
    /\ TariffsInUse[2].start_date_time = Some(cdr.start_date_time)
    /\ Report.tariff_index = 1

\* C2: once the zone is resolved: after with_tariffs only the supplied
\* tariffs are looked at (the CDR's own are ignored, also when none of the
\* supplied ones is valid); without with_tariffs the CDR's tariffs are looked
\* at; when the source in use offers no tariff the result is NoValidTariff.
C2_TariffSource ==
    (Built /\ Outcome.error \notin TimeZoneErrors) =>
        /\ IsSome(pricer.tariffs) =>
                /\ IsSome(Outcome.report) <=> Qualifying(supplied) # {}
                /\ IsSome(Outcome.report) => Report.tariff_id = "supplied"
        /\ IsNone(pricer.tariffs) =>
                /\ IsSome(Outcome.report) <=> Qualifying(cdr.tariffs) # {}
                /\ IsSome(Outcome.report) => Report.tariff_id = "embedded"
        /\ TariffsInUse = <<>> => Outcome.error = Some("NoValidTariff")
        /\ IsNone(Outcome.report) => Outcome.error = Some("NoValidTariff")

\* with_tariffs was called with tariffs of which none is valid, and the
\* CDR's own valid tariff is not used
C2_Witness ==
    /\ Built
    /\ IsSome(pricer.tariffs)
    /\ supplied # <<>>
    /\ Qualifying(supplied) = {}
    /\ Qualifying(cdr.tariffs) # {}
    /\ Outcome.error = Some("NoValidTariff")

CdrZone == cdr.cdr_location.time_zone

DetectedZone == try_detect_time_zone(cdr.cdr_location.country)

\* the report, when there is one, was priced in time_zone, and no time-zone
\* error was returned
PricedIn(time_zone) ==
    /\ Outcome.error \notin TimeZoneErrors
    /\ IsSome(Outcome.report) => Report.time_zone = time_zone

C4_DetectionCoversInvalidZone ==
    (/\ Built
     /\ IsNone(pricer.time_zone)
     /\ IsSome(CdrZone)
     /\ IsNone(ParseTz(Unwrap(CdrZone)))
     /\ pricer.detect_time_zone
     /\ IsSome(DetectedZone)) => PricedIn(Unwrap(DetectedZone))

\* no zone can be resolved from the pricer and the CDR
ZoneUnresolvable ==
    /\ IsNone(pricer.time_zone)
    /\ IF IsSome(CdrZone)
       THEN Unwrap(CdrZone) \notin KnownTimeZones
       ELSE ~pricer.detect_time_zone \/ IsNone(DetectedZone)

\* C5: when no zone can be resolved the result is a time-zone error, also
\* when no tariff is valid; NoValidTariff is returned only with a resolved
\* zone; and a result that carries an error carries no report.
C5_ErrorOrder ==
    Built =>
        /\ ZoneUnresolvable => Outcome.error \in TimeZoneErrors
        /\ Outcome.error = Some("NoValidTariff") => ~ZoneUnresolvable
        /\ IsSome(Outcome.error) <=> IsNone(Outcome.report)

\* neither a zone nor a valid tariff: the time-zone error is the one returned
C5_Witness ==
    /\ Built
    /\ ZoneUnresolvable
    /\ Qualifying(TariffsInUse) = {}
    /\ Outcome.error = Some("TimeZoneMissing")

(***************************************************************************)
(* SpecPrice: pricing of sessions of up to MaxPeriods periods under one    *)
(* supplied tariff of up to MaxElements elements.  The first element may   *)
(* carry a restriction, the elements after it carry none.  The inputs      *)
(* come in four families: flat and energy components (Flat), energy step   *)
(* sizes (Energy), time and parking step sizes (Time) and all four         *)
(* dimensions in one element (Mixed).                                      *)
(***************************************************************************)
Amsterdam == [country |-> "NLD", time_zone |-> Some("Europe/Amsterdam")]

OptComponent(o) == IF IsSome(o) THEN <<Unwrap(o)>> ELSE <<>>

Options(S) == {None} \cup {Some(x) : x \in S}

MaxKwh5 == Some([OcpiRestrictionNone EXCEPT !.max_kwh = Some(5)])

MinKwh5 == Some([OcpiRestrictionNone EXCEPT !.min_kwh = Some(5)])

MaxDuration1 == Some([OcpiRestrictionNone EXCEPT !.max_duration = Some(PeriodLength)])

\* tariffs whose first element is drawn from First and the others from Rest
TariffsFrom(First, Rest) ==
    {MkTariff("supplied", None, None, <<f>> \o r) :
        f \in First, r \in SeqsOf(Rest, 0, MaxElements - 1)}

CdrsOf(Volumes) ==
    {MkCdr(Amsterdam, v, <<>>) : v \in SeqsOf(Volumes, 1, MaxPeriods)}

FlatA == MkComponent("FLAT", Money1, VatOf(Some(20)), 1)

FlatB == MkComponent("FLAT", 2 * Money1, VatUnknown, 1)

Energy0 == MkComponent("ENERGY", Money1, VatUnknown, 0)

Energy1 == MkComponent("ENERGY", 2 * Money1, VatOf(None), 1)

Energy2 == MkComponent("ENERGY", Money1, VatOf(Some(20)), 2)

Time1 == MkComponent("TIME", Money1, VatOf(Some(20)), 1)

Time2 == MkComponent("TIME", 2 * Money1, VatUnknown, 2)

Parking0 == MkComponent("PARKING_TIME", Money1, VatOf(None), 0)

Parking2 == MkComponent("PARKING_TIME", Money1, VatOf(Some(20)), 2)

FlatElements(Restrictions) ==
    {MkElement(r, OptComponent(f) \o OptComponent(e)) :
        r \in Restrictions, f \in Options({FlatA, FlatB}), e \in Options({Energy0})}

EnergyElements(Restrictions) ==
    {MkElement(r, <<e>>) : r \in Restrictions, e \in {Energy0, Energy1, Energy2}}

TimeElements(Restrictions) ==
    {MkElement(r, OptComponent(t) \o OptComponent(p)) :
        r \in Restrictions, t \in Options({Time1, Time2}),
        p \in Options({Parking0, Parking2})}

MixedElements ==
    {MkElement(None, <<FlatA, Energy2, Time2>> \o OptComponent(p)) :
        p \in Options({Parking2})}

FlatInputs ==
    CdrsOf({<<e, None, None>> : e \in Options({5})})
    \X TariffsFrom(FlatElements({None, MaxKwh5, MinKwh5}), FlatElements({None}))

EnergyInputs ==
    CdrsOf({<<e, None, None>> : e \in Options({5, 12})})
    \X TariffsFrom(EnergyElements({None, MaxKwh5, MinKwh5}), EnergyElements({None}))

TimeInputs ==
    CdrsOf({<<None, t, p>> : t \in Options({1500}), p \in Options({500})})
    \X TariffsFrom(TimeElements({None, MaxDuration1}),
                   {MkElement(None, c) :
                        c \in {<<Time2>>, <<Parking2>>, <<Time2, Parking2>>}})

MixedInputs ==
    CdrsOf({<<e, t, p>> : e \in Options({12}), t \in Options({1500}),
                          p \in Options({500})})
    \X TariffsFrom(MixedElements, {})

\* a first element that has all four components, followed by others
FilledInputs ==
    CdrsOf({<<Some(12), Some(1500), Some(500)>>})
    \X TariffsFrom(MixedElements, MixedElements)

\* an OCPI 2.1.1 price component: it has no vat
MkComponent211(type, price, step_size) ==
    [component_type |-> type, price |-> price, step_size |-> step_size]

\* tariffs adapted from OCPI 2.1.1, and sessions of 0..MaxPeriods periods
LegacyInputs ==
    {MkCdr(Amsterdam, v, <<>>) :
        v \in SeqsOf({<<e, None, None>> : e \in Options({12})}, 0, MaxPeriods)}
    \X {TariffFrom211(MkTariff("supplied", None, None,
                               <<MkElement(None, OptComponent(f) \o OptComponent(e))>>)) :
            f \in Options({MkComponent211("FLAT", Money1, 1)}),
            e \in Options({MkComponent211("ENERGY", Money1, 2)})}

PriceInputs ==
    FlatInputs \cup EnergyInputs \cup TimeInputs \cup MixedInputs \cup FilledInputs
    \cup LegacyInputs

InitPrice ==
    /\ \E input \in PriceInputs :
            /\ cdr = input[1]
            /\ supplied = <<input[2]>>
    /\ pricer = PricerNew
    /\ result = None
    /\ warnings = None
    /\ unnormalized = None
    /\ at_end = None
    /\ validation = None

NextPrice ==
    \/ WithTariffs
    \/ BuildReport

SpecPrice == InitPrice /\ [][NextPrice]_vars

(***************************************************************************)
(* Properties of SpecPrice                                                 *)
(***************************************************************************)
Priced == Built /\ IsSome(Outcome.report)

PeriodCount == Len(Report.periods)

\* the DimensionReport of dimension dim in the i-th period of the report
Dim(i, dim) == DimensionOf(Report.periods[i].dimensions, dim)

\* the periods that have both a volume and an active component of dim
Anchors(dim) ==
    {i \in 1..PeriodCount : IsSome(Dim(i, dim).volume) /\ IsSome(Dim(i, dim).price)}

HasAnchor(dim) == Anchors(dim) # {}

HighestOf(S) == CHOOSE i \in S : \A j \in S : i >= j

\* the step size of the last period that has both
AnchorStep(dim) == Unwrap(Dim(HighestOf(Anchors(dim)), dim).price).step_size

\* the session and the tariff that SpecPrice prices
PricedSession == ChargeSessionNew(cdr, Report.time_zone)

PricedTariff == TariffNew(TariffsInUse[Report.tariff_index + 1])

\* the periods in which the tariff has an active flat component
ActiveFlat ==
    {i \in 1..Len(PricedSession.periods) :
        IsSome(active_components(PricedTariff, PricedSession.periods[i]).flat)}

\* the periods whose report carries a flat component
FlatPeriods == {i \in 1..PeriodCount : IsSome(Dim(i, "flat").price)}

\* C6: the flat fee appears in at most one PeriodReport, the first period
\* in which a flat component is active; the later periods carry none, and
\* total_fixed_cost is the cost of that one component (None when no period
\* has an active flat component).
C6_FlatFeeOnce ==
    Priced =>
        /\ Cardinality(FlatPeriods) <= 1
        /\ IF ActiveFlat = {}
           THEN FlatPeriods = {} /\ IsNone(Report.total_fixed_cost)
           ELSE LET first == LowestOf(ActiveFlat)
                IN  /\ FlatPeriods = {first}
                    /\ Dim(first, "flat").price =
                        active_components(PricedTariff, PricedSession.periods[first]).flat
                    /\ Report.total_fixed_cost =
                        DimensionReportCost("flat", Dim(first, "flat"))

\* two periods with different active flat components: only the first is kept
C6_Witness ==
    /\ Priced
    /\ ActiveFlat = {1, 2}
    /\ active_components(PricedTariff, PricedSession.periods[1]).flat
        # active_components(PricedTariff, PricedSession.periods[2]).flat
    /\ FlatPeriods = {1}
    /\ IsSome(Report.total_fixed_cost)

\* billed is the smallest multiple of unit that is not below total
RoundedUp(billed, total, unit) ==
    /\ billed % unit = 0
    /\ billed >= total
    /\ billed - total < unit

\* billed follows from total by the step size of dim's anchor, one step being
\* unit; with a step size of 0 or without an anchor it is the total
StepRule(dim, billed, total, unit) ==
    IF HasAnchor(dim) /\ AnchorStep(dim) > 0
    THEN RoundedUp(billed, total, AnchorStep(dim) * unit)
    ELSE billed = total

\* C7: for energy and parking time, and for charging time when its step size
\* is applied, the billed total is ceil(total / k) * k in the step's unit
\* (Wh for energy, seconds for the durations), k being the anchor's step
\* size; with k = 0 or without an anchor the billed total is the total.  So
\* the billed total is a multiple of k, not below the total and less than k
\* above it.
C7_StepSizeRounding ==
    Priced =>
        /\ StepRule("energy", Report.billed_energy, Report.total_energy, WhUnit)
        /\ StepRule("parking_time", Report.billed_parking_time,
                    Report.total_parking_time, MILLIS_IN_SEC)
        /\ ~HasAnchor("parking_time") =>
                StepRule("time", Report.billed_charging_time,
                         Report.total_charging_time, MILLIS_IN_SEC)

\* energy and parking time are both rounded up by a step size of 2
C7_Witness ==
    /\ Priced
    /\ HasAnchor("energy") /\ AnchorStep("energy") = 2
    /\ Report.billed_energy > Report.total_energy
    /\ HasAnchor("parking_time") /\ AnchorStep("parking_time") = 2
    /\ Report.billed_parking_time > Report.total_parking_time

\* the sum of the billed volumes of dim over the first i periods
RECURSIVE SumBilled(_, _)
SumBilled(dim, i) ==
    IF i = 0 THEN 0 ELSE SumBilled(dim, i - 1) + UnwrapOr(Dim(i, dim).billed_volume, 0)

\* C8: for each dimension with an anchor, the billed volumes of the periods
\* add up to the billed total of the dimension.
C8_BilledVolumesAddUp ==
    Priced =>
        /\ HasAnchor("energy") => SumBilled("energy", PeriodCount) = Report.billed_energy
        /\ HasAnchor("parking_time") =>
                SumBilled("parking_time", PeriodCount) = Report.billed_parking_time
        /\ HasAnchor("time") =>
                SumBilled("time", PeriodCount) = Report.billed_charging_time

\* two periods with energy, the second the anchor and the only one adjusted
C8_Witness ==
    /\ Priced
    /\ Anchors("energy") = {1, 2}
    /\ Report.billed_energy > Report.total_energy
    /\ Dim(1, "energy").billed_volume = Dim(1, "energy").volume
    /\ Dim(2, "energy").billed_volume # Dim(2, "energy").volume

\* C9: with a parking anchor the time step size is not applied:
\* billed_charging_time is total_charging_time and no period's billed time
\* differs from its time; the time step size is applied only with a time
\* anchor and no parking anchor.
C9_ParkingSuppressesTimeStep ==
    Priced =>
        /\ HasAnchor("parking_time") =>
                /\ Report.billed_charging_time = Report.total_charging_time
                /\ \A i \in 1..PeriodCount :
                        Dim(i, "time").billed_volume = Dim(i, "time").volume
        /\ Report.billed_charging_time # Report.total_charging_time =>
                HasAnchor("time") /\ ~HasAnchor("parking_time")

\* a time anchor whose step size would round the total up, and a parking
\* anchor
C9_Witness ==
    /\ Priced
    /\ HasAnchor("parking_time")
    /\ HasAnchor("time") /\ AnchorStep("time") > 0
    /\ Report.total_charging_time % (AnchorStep("time") * MILLIS_IN_SEC) # 0
    /\ Report.billed_charging_time = Report.total_charging_time

Dims == {"flat", "energy", "time", "parking_time"}

\* the cost without VAT of volume v at the component's price: the price per
\* kWh or per hour times the volume, the volume being counted in 1/KwhScale
\* kWh or in milliseconds, the price in 1/MoneyScale
CostExclVat(dim, component, v) ==
    CASE dim = "flat" -> component.price
      [] dim = "energy" ->
            (component.price \div MoneyScale) * v * (MoneyScale \div KwhScale)
      [] dim \in {"time", "parking_time"} ->
            (component.price \div MoneyScale) * v * (MoneyScale \div MillisInHour)

\* C10: a dimension of a period has a cost exactly when it has both an
\* active component and a billed volume; excl_vat is the price for Flat and
\* price times billed volume otherwise (kWh, hours); incl_vat is absent when
\* the tariff's VAT is unknown, excl_vat when the VAT is none, and
\* excl_vat * (1 + p / 100) for a VAT of p percent (excl_vat plus p
\* hundredths of it).
C10_DimensionCost ==
    Priced =>
        \A i \in 1..PeriodCount, dim \in Dims :
            LET d == Dim(i, dim)
                cost == DimensionReportCost(dim, d)
            IN  /\ IsSome(cost) <=> (IsSome(d.price) /\ IsSome(d.billed_volume))
                /\ IsSome(cost) =>
                    LET component == Unwrap(d.price)
                        excl == Unwrap(cost).excl_vat
                        incl == Unwrap(cost).incl_vat
                    IN  /\ excl = CostExclVat(dim, component, Unwrap(d.billed_volume))
                        /\ IF component.vat.unknown
                           THEN IsNone(incl)
                           ELSE /\ IsSome(incl)
                                /\ IF IsNone(component.vat.vat)
                                   THEN Unwrap(incl) = excl
                                   ELSE /\ excl % VatDivisor = 0
                                        /\ Unwrap(incl) - excl =
                                            (excl \div VatDivisor)
                                                * Unwrap(component.vat.vat)

\* a period whose billed energy was rounded up and is charged at 20 % VAT,
\* and whose parking time has a volume but no component and so no cost
C10_Witness ==
    /\ Priced
    /\ \E i \in 1..PeriodCount :
            /\ Dim(i, "energy").billed_volume # Dim(i, "energy").volume
            /\ Unwrap(Dim(i, "energy").price).vat.vat = Some(20)
            /\ IsSome(DimensionReportCost("energy", Dim(i, "energy")))
            /\ IsSome(Dim(i, "parking_time").volume)
            /\ IsNone(Dim(i, "parking_time").price)
            /\ IsNone(DimensionReportCost("parking_time", Dim(i, "parking_time")))

\* the cost of dimension dim in the i-th period of the report
PeriodCost(i, dim) == DimensionReportCost(dim, Dim(i, dim))

\* the periods that have a cost for dim
Costed(dim) == {i \in 1..PeriodCount : IsSome(PeriodCost(i, dim))}

RECURSIVE SumOver(_, _)
SumOver(f, S) ==
    IF S = {} THEN 0 ELSE LET x == CHOOSE y \in S : TRUE IN f[x] + SumOver(f, S \ {x})

\* a present total is the sum of the contributions in S, f giving their
\* excl_vat and g their incl_vat: excl_vat always adds up, incl_vat adds up
\* when every contribution has one
IsSumOf(total, f, g, S) ==
    /\ total.excl_vat = SumOver(f, S)
    /\ (\A x \in S : IsSome(g[x])) =>
            total.incl_vat = Some(SumOver([x \in S |-> Unwrap(g[x])], S))

TotalOf(dim) ==
    CASE dim = "flat" -> Report.total_fixed_cost
      [] dim = "energy" -> Report.total_energy_cost
      [] dim = "time" -> Report.total_time_cost
      [] dim = "parking_time" -> Report.total_parking_cost

\* the dimensions whose cost total is present
Present == {dim \in Dims : IsSome(TotalOf(dim))}

\* C11: each per-dimension cost total is None exactly when the dimension has
\* no cost in any period, and is otherwise the sum of the periods' costs, a
\* missing cost counting as zero; total_cost is None exactly when all four
\* totals are None and is otherwise their sum, a missing total counting as
\* zero.
C11_CostTotals ==
    Priced =>
        /\ \A dim \in Dims :
                /\ IsNone(TotalOf(dim)) <=> Costed(dim) = {}
                /\ IsSome(TotalOf(dim)) =>
                        IsSumOf(Unwrap(TotalOf(dim)),
                                [i \in Costed(dim) |-> Unwrap(PeriodCost(i, dim)).excl_vat],
                                [i \in Costed(dim) |-> Unwrap(PeriodCost(i, dim)).incl_vat],
                                Costed(dim))
        /\ IsNone(Report.total_cost) <=> Present = {}
        /\ IsSome(Report.total_cost) =>
                IsSumOf(Unwrap(Report.total_cost),
                        [dim \in Present |-> Unwrap(TotalOf(dim)).excl_vat],
                        [dim \in Present |-> Unwrap(TotalOf(dim)).incl_vat],
                        Present)

\* an energy total over a period with a cost and a period without one, next
\* to a flat total and to absent time and parking totals
C11_Witness ==
    /\ Priced
    /\ PeriodCount = 2
    /\ Cardinality(Costed("energy")) = 1
    /\ IsSome(Report.total_energy_cost)
    /\ IsSome(Report.total_fixed_cost)
    /\ IsNone(Report.total_time_cost)
    /\ IsNone(Report.total_parking_cost)
    /\ Unwrap(Report.total_cost).excl_vat >
            Unwrap(Report.total_fixed_cost).excl_vat

\* the period costs of dim computed from a component whose VAT is unknown
UnknownVat(dim) ==
    {i \in Costed(dim) : Unwrap(Dim(i, dim).price).vat.unknown}

\* the tariff in use was adapted from OCPI 2.1.1: no component has a VAT
AllVatUnknown ==
    \A t \in 1..Len(TariffsInUse) :
        \A e \in 1..Len(TariffsInUse[t].elements) :
            \A c \in 1..Len(TariffsInUse[t].elements[e].price_components) :
                TariffsInUse[t].elements[e].price_components[c].vat = VatUnknown

\* C12: a present cost total has no incl_vat exactly when a period cost that
\* contributes to it was computed from a component with VAT Unknown; so with
\* a tariff adapted from OCPI 2.1.1 every present total, total_cost
\* included, has no incl_vat.
C12_InclVatUnknown ==
    Priced =>
        /\ \A dim \in Present :
                IsNone(Unwrap(TotalOf(dim)).incl_vat) <=> UnknownVat(dim) # {}
        /\ IsSome(Report.total_cost) =>
                (IsNone(Unwrap(Report.total_cost).incl_vat) <=>
                    \E dim \in Dims : UnknownVat(dim) # {})
        /\ AllVatUnknown =>
                /\ \A dim \in Present : IsNone(Unwrap(TotalOf(dim)).incl_vat)
                /\ IsSome(Report.total_cost) =>
                        IsNone(Unwrap(Report.total_cost).incl_vat)

\* a tariff adapted from OCPI 2.1.1 with a flat and an energy total
C12_Witness ==
    /\ Priced
    /\ AllVatUnknown
    /\ TariffsInUse[1] \in {i[2] : i \in LegacyInputs}
    /\ IsSome(Report.total_fixed_cost)
    /\ IsSome(Report.total_energy_cost)
    /\ IsNone(Unwrap(Report.total_cost).incl_vat)

\* C13: total_time is the span from the first charging period's start to the
\* CDR's end_date_time, the end of the last period, whatever Time and
\* ParkingTime volumes the periods report; without charging periods it is 0.
C13_TotalTime ==
    Priced =>
        IF cdr.charging_periods = <<>>
        THEN Report.total_time = 0
        ELSE /\ Report.total_time =
                    cdr.end_date_time - cdr.charging_periods[1].start_date_time
             /\ Report.periods[PeriodCount].end_date_time = cdr.end_date_time
             /\ Report.periods[1].start_date_time =
                    cdr.charging_periods[1].start_date_time

\* two periods whose reported time and parking time do not add up to the span
C13_Witness ==
    /\ Priced
    /\ PeriodCount = 2
    /\ Report.total_charging_time > 0
    /\ Report.total_parking_time > 0
    /\ Report.total_time = 2 * PeriodLength
    /\ Report.total_time # Report.total_charging_time + Report.total_parking_time

\* a session without charging periods is priced with a total_time of 0
C13_WitnessEmpty ==
    /\ Priced
    /\ cdr.charging_periods = <<>>
    /\ Report.total_time = 0

\* the component of dimension dim among PriceComponents
ComponentOf(components, dim) ==
    CASE dim = "flat" -> components.flat
      [] dim = "energy" -> components.energy
      [] dim = "time" -> components.time
      [] dim = "parking_time" -> components.parking

\* the elements of the priced tariff that are active for the i-th period and
\* have a component of dimension dim
Supplying(i, dim) ==
    {k \in 1..Len(PricedTariff.elements) :
        /\ ElementIsActive(PricedTariff.elements[k], PricedSession.periods[i])
        /\ IsSome(ComponentOf(PricedTariff.elements[k].components, dim))}

\* the component of dimension dim of the lowest-index element that is active
\* for the i-th period and has one
FirstSupplied(i, dim) ==
    IF Supplying(i, dim) = {}
    THEN None
    ELSE ComponentOf(PricedTariff.elements[LowestOf(Supplying(i, dim))].components, dim)

\* C17: in every period and for each of the four dimensions on its own,
\* active_components returns the component of the lowest-index element that
\* is active for the period and has a component of that dimension, and none
\* when no active element has one; elements after the one that fills the last
\* dimension never change that.  The report of the period carries that
\* component (the flat one is taken out of the report once it has been billed).
C17_FirstActiveElement ==
    Priced =>
        \A i \in 1..PeriodCount : \A dim \in Dims :
            /\ ComponentOf(active_components(PricedTariff, PricedSession.periods[i]), dim)
                    = FirstSupplied(i, dim)
            /\ dim # "flat" => Dim(i, dim).price = FirstSupplied(i, dim)

\* a period in which two active elements have different energy components
C17_Witness ==
    /\ Priced
    /\ \E i \in 1..PeriodCount :
            /\ Supplying(i, "energy") = {1, 2}
            /\ PricedTariff.elements[1].components.energy
                    # PricedTariff.elements[2].components.energy
            /\ Dim(i, "energy").price = PricedTariff.elements[1].components.energy

\* a period whose energy component comes from the second element because the
\* first, which has one, is not active; and a period whose flat component
\* comes from the first element and its energy component from the second
C17_WitnessSkipped ==
    /\ Priced
    /\ \E i \in 1..PeriodCount :
            /\ Supplying(i, "energy") = {2}
            /\ IsSome(PricedTariff.elements[1].components.energy)

C17_WitnessIndependent ==
    /\ Priced
    /\ \E i \in 1..PeriodCount :
            /\ Supplying(i, "energy") = {2}
            /\ 1 \in Supplying(i, "flat")

\* a period whose first element fills all four dimensions, with a second
\* active element that has other components
C17_WitnessAllFilled ==
    /\ Priced
    /\ \E i \in 1..PeriodCount :
            /\ \A dim \in Dims : Supplying(i, dim) = {1, 2}
            /\ PricedTariff.elements[1].components # PricedTariff.elements[2].components

(***************************************************************************)
(* SpecRestrict: sessions of two periods priced with a tariff of one       *)
(* element, an energy component under one restriction record.  The session *)
(* starts on Thursday 1970-01-01 at 11:00 local time; the second period    *)
(* starts at 11:30 with 0.0005 kWh and PeriodLength behind it.             *)
(***************************************************************************)
LocalStart == SessionStart + UtcOffset("Europe/Amsterdam")

Thursday == 3

\* restriction records that set one bound, on and next to the value the
\* start of a period has
TimeRestrictions ==
    {[OcpiRestrictionNone EXCEPT !.start_time = Some(t)] :
        t \in {LocalStart, LocalStart + PeriodLength}}
    \cup {[OcpiRestrictionNone EXCEPT !.end_time = Some(t)] :
        t \in {LocalStart + PeriodLength, LocalStart + PeriodLength + 1}}
    \cup {[OcpiRestrictionNone EXCEPT !.start_time = Some(s), !.end_time = Some(e)] :
        s \in {LocalStart + PeriodLength, LocalStart + PeriodLength + 1},
        e \in {LocalStart, LocalStart + 1}}
    \cup {[OcpiRestrictionNone EXCEPT !.start_time = Some(LocalStart),
                                      !.end_time = Some(LocalStart + PeriodLength)]}

DateRestrictions ==
    {[OcpiRestrictionNone EXCEPT !.start_date = Some(d)] : d \in {0, 1}}
    \cup {[OcpiRestrictionNone EXCEPT !.end_date = Some(d)] : d \in {0, 1}}
    \cup {[OcpiRestrictionNone EXCEPT !.day_of_week = d] :
            d \in {<<Thursday>>, <<0>>, <<0, Thursday>>, <<Thursday + 1>>}}

TotalRestrictions ==
    {[OcpiRestrictionNone EXCEPT !.min_kwh = Some(v)] : v \in {5, 6}}
    \cup {[OcpiRestrictionNone EXCEPT !.max_kwh = Some(v)] : v \in {5, 6}}
    \cup {[OcpiRestrictionNone EXCEPT !.min_duration = Some(v)] :
            v \in {PeriodLength, PeriodLength + 1}}
    \cup {[OcpiRestrictionNone EXCEPT !.max_duration = Some(v)] :
            v \in {PeriodLength, PeriodLength + 1}}
    \cup {[OcpiRestrictionNone EXCEPT !.min_kwh = Some(5), !.max_duration = Some(v)] :
            v \in {PeriodLength, PeriodLength + 1}}

PeriodRestrictions ==
    {[OcpiRestrictionNone EXCEPT !.min_current = Some(10)],
     [OcpiRestrictionNone EXCEPT !.max_current = Some(10)],
     [OcpiRestrictionNone EXCEPT !.min_power = Some(10)],
     [OcpiRestrictionNone EXCEPT !.max_power = Some(10)],
     [OcpiRestrictionNone EXCEPT !.min_current = Some(10), !.max_kwh = Some(5)]}

RestrictionRecords ==
    TimeRestrictions \cup DateRestrictions \cup TotalRestrictions \cup PeriodRestrictions

\* the current or power a period may report besides its energy
ExtraDimensions ==
    {<<>>} \cup {<<[type |-> t, volume |-> v]>> :
                    t \in {"MIN_CURRENT", "MAX_CURRENT", "MIN_POWER", "MAX_POWER"},
                    v \in {9, 10}}

RestrictCdrs ==
    {[MkCdr(Amsterdam, <<<<Some(5), None, None>>, <<Some(5), None, None>>>>, <<>>)
        EXCEPT !.charging_periods[1].dimensions = @ \o x,
               !.charging_periods[2].dimensions = @ \o y] :
        x \in ExtraDimensions, y \in ExtraDimensions}

RestrictTariffs ==
    {MkTariff("supplied", None, None, <<MkElement(r, <<Energy0>>)>>) :
        r \in Options(RestrictionRecords)}

InitRestrict ==
    /\ cdr \in RestrictCdrs
    /\ \E tariff \in RestrictTariffs : supplied = <<tariff>>
    /\ pricer = PricerNew
    /\ result = None
    /\ warnings = None
    /\ unnormalized = None
    /\ at_end = None
    /\ validation = None

SpecRestrict == InitRestrict /\ [][NextPrice]_vars

(***************************************************************************)
(* Properties of SpecRestrict                                              *)
(***************************************************************************)
\* o is None or bounds v as Holds(bound, v) says
Bound(o, Holds(_)) == IsNone(o) \/ Holds(Unwrap(o))

\* the restriction record r holds for a period that starts at instant and has
\* the period data state
RestrictionsHold(r, instant, state) ==
    LET time == local_time(instant)
        date == local_date(instant)
        FromStartTime(bound) == time >= bound
        BeforeEndTime(bound) == time < bound
        FromStartDate(bound) == date >= bound
        BeforeEndDate(bound) == date < bound
        MinKwh(bound) == instant.total_energy >= bound
        MaxKwh(bound) == instant.total_energy < bound
        MinDuration(bound) == instant.total_duration >= bound
        MaxDuration(bound) == instant.total_duration < bound
        MinCurrent(bound) == Bound(state.min_current, LAMBDA v : v >= bound)
        MaxCurrent(bound) == Bound(state.max_current, LAMBDA v : v < bound)
        MinPower(bound) == Bound(state.min_power, LAMBDA v : v >= bound)
        MaxPower(bound) == Bound(state.max_power, LAMBDA v : v < bound)
    IN  /\ IF /\ IsSome(r.start_time) /\ IsSome(r.end_time)
              /\ Unwrap(r.end_time) < Unwrap(r.start_time)
           THEN time >= Unwrap(r.start_time) \/ time < Unwrap(r.end_time)
           ELSE Bound(r.start_time, FromStartTime) /\ Bound(r.end_time, BeforeEndTime)
        /\ Bound(r.start_date, FromStartDate)
        /\ Bound(r.end_date, BeforeEndDate)
        /\ Bound(r.min_kwh, MinKwh)
        /\ Bound(r.max_kwh, MaxKwh)
        /\ Bound(r.min_duration, MinDuration)
        /\ Bound(r.max_duration, MaxDuration)
        /\ r.day_of_week # <<>> => local_weekday(instant) \in SeqRange(r.day_of_week)
        /\ Bound(r.min_current, MinCurrent)
        /\ Bound(r.max_current, MaxCurrent)
        /\ Bound(r.min_power, MinPower)
        /\ Bound(r.max_power, MaxPower)

\* the restrictions of the only element of the priced tariff, as supplied
SuppliedRestrictions == TariffsInUse[Report.tariff_index + 1].elements[1].restrictions

\* the i-th period of the session is priced with the element's component
ElementActive(i) == IsSome(Dim(i, "energy").price)

\* the element should be active for the i-th period
ShouldBeActive(i) ==
    \/ IsNone(SuppliedRestrictions)
    \/ RestrictionsHold(Unwrap(SuppliedRestrictions),
                        PricedSession.periods[i].start_instant,
                        PricedSession.periods[i].period_data)

\* C18: an element is active for a period exactly when every restriction of
\* it holds at the period's start_instant, lower bounds (start_time,
\* start_date, min_kwh, min_duration) being inclusive and upper bounds
\* (end_time, end_date, max_kwh, max_duration) strict, a start_time after the
\* end_time wrapping around midnight, day_of_week holding the local weekday,
\* and min/max_current and min/max_power holding on the period's data or
\* the period having no such value; an element without restrictions is
\* always active.
C18_ElementActive ==
    Priced => \A i \in 1..PeriodCount : ElementActive(i) <=> ShouldBeActive(i)

\* the second period starts exactly on the upper bound of the element and is
\* not priced with it, while the first period is
C18_Witness ==
    /\ Priced
    /\ IsSome(SuppliedRestrictions)
    /\ \/ Unwrap(SuppliedRestrictions).end_time
            = Some(local_time(PricedSession.periods[2].start_instant))
       \/ Unwrap(SuppliedRestrictions).max_kwh
            = Some(PricedSession.periods[2].start_instant.total_energy)
       \/ Unwrap(SuppliedRestrictions).max_duration
            = Some(PricedSession.periods[2].start_instant.total_duration)
    /\ ElementActive(1)
    /\ ~ElementActive(2)

\* a period that starts exactly on a lower bound and is priced with the
\* element
C18_WitnessLower ==
    /\ Priced
    /\ IsSome(SuppliedRestrictions)
    /\ \E i \in 1..PeriodCount :
            /\ ElementActive(i)
            /\ \/ Unwrap(SuppliedRestrictions).start_time
                    = Some(local_time(PricedSession.periods[i].start_instant))
               \/ Unwrap(SuppliedRestrictions).min_kwh = Some(5)
               \/ Unwrap(SuppliedRestrictions).min_duration = Some(PeriodLength)

\* a current or power restriction that holds because the period has no such
\* value, and one that fails on the value the period has
C18_WitnessVacuous ==
    /\ Priced
    /\ IsSome(SuppliedRestrictions)
    /\ IsSome(Unwrap(SuppliedRestrictions).max_power)
    /\ IsNone(PricedSession.periods[1].period_data.max_power)
    /\ ElementActive(1)
    /\ IsSome(PricedSession.periods[2].period_data.max_power)
    /\ ~ElementActive(2)

\* a wrapping time restriction and a day_of_week restriction at work
C18_WitnessWrapping ==
    /\ Priced
    /\ IsSome(SuppliedRestrictions)
    /\ IsSome(Unwrap(SuppliedRestrictions).start_time)
    /\ IsSome(Unwrap(SuppliedRestrictions).end_time)
    /\ Unwrap(Unwrap(SuppliedRestrictions).end_time)
            < Unwrap(Unwrap(SuppliedRestrictions).start_time)
    /\ ~ElementActive(1)
    /\ ElementActive(2)

C18_WitnessWeekday ==
    /\ Priced
    /\ IsSome(SuppliedRestrictions)
    /\ \/ Unwrap(SuppliedRestrictions).day_of_week = <<0, Thursday>> /\ ElementActive(1)
       \/ Unwrap(SuppliedRestrictions).day_of_week = <<0>> /\ ~ElementActive(1)

(***************************************************************************)
(* Properties of SpecPrice: the step-size anchors                          *)
(***************************************************************************)
\* the StepSize after the pass over the periods of the priced session
StepSizeAfterPass ==
    PeriodLoop(LoopStart, PricedTariff, PricedSession.periods, 1).step_size

AnchorOf(dim) ==
    CASE dim = "energy" -> StepSizeAfterPass.energy
      [] dim = "time" -> StepSizeAfterPass.time
      [] dim = "parking_time" -> StepSizeAfterPass.parking_time

\* the total and the billed total of a dimension in the report
TotalVolume(dim) ==
    CASE dim = "energy" -> Report.total_energy
      [] dim = "time" -> Report.total_charging_time
      [] dim = "parking_time" -> Report.total_parking_time

BilledVolume(dim) ==
    CASE dim = "energy" -> Report.billed_energy
      [] dim = "time" -> Report.billed_charging_time
      [] dim = "parking_time" -> Report.billed_parking_time

\* C19: after the pass over the periods the anchor of energy, time and
\* parking is the highest period index that has a volume of the dimension
\* while a component of the dimension is active, and there is none without
\* such a period; the difference between the billed total and the total is
\* added to the billed_volume of the anchor period, and the billed_volume of
\* every other period is its volume.
C19_AnchorIsLastPeriod ==
    Priced =>
        \A dim \in {"energy", "time", "parking_time"} :
            /\ AnchorOf(dim) =
                    IF HasAnchor(dim)
                    THEN Some(<<HighestOf(Anchors(dim)) - 1,
                                Unwrap(Dim(HighestOf(Anchors(dim)), dim).price)>>)
                    ELSE None
            /\ \A i \in 1..PeriodCount :
                    IF HasAnchor(dim) /\ i = HighestOf(Anchors(dim))
                    THEN Unwrap(Dim(i, dim).billed_volume) =
                            Unwrap(Dim(i, dim).volume)
                                + (BilledVolume(dim) - TotalVolume(dim))
                    ELSE Dim(i, dim).billed_volume = Dim(i, dim).volume

\* the last period has energy but no active energy component: the anchor is
\* the first period, and it takes the difference
C19_Witness ==
    /\ Priced
    /\ PeriodCount = 2
    /\ IsSome(Dim(2, "energy").volume)
    /\ Anchors("energy") = {1}
    /\ Report.billed_energy > Report.total_energy
    /\ Dim(1, "energy").billed_volume # Dim(1, "energy").volume
    /\ Dim(2, "energy").billed_volume = Dim(2, "energy").volume

\* two periods with parking time and an active parking component: the second
\* is the anchor and takes the difference
C19_WitnessLast ==
    /\ Priced
    /\ Anchors("parking_time") = {1, 2}
    /\ Report.billed_parking_time > Report.total_parking_time
    /\ Dim(1, "parking_time").billed_volume = Dim(1, "parking_time").volume
    /\ Dim(2, "parking_time").billed_volume # Dim(2, "parking_time").volume

\* a priced session without any anchor
C19_WitnessNone ==
    /\ Priced
    /\ PeriodCount > 0
    /\ \A dim \in {"energy", "time", "parking_time"} : ~HasAnchor(dim)

(***************************************************************************)
(* Properties of SpecPrice: the periods of the session                     *)
(***************************************************************************)
\* the volume of dimension type in an input charging period, 0 without one
VolumeIn(period, type) ==
    LET Found == {i \in 1..Len(period.dimensions) : period.dimensions[i].type = type}
    IN  IF Found = {} THEN 0 ELSE period.dimensions[HighestOf(Found)].volume

RECURSIVE VolumeBefore(_, _)
\* the volume of dimension type in the input periods before the i-th
VolumeBefore(i, type) ==
    IF i <= 1
    THEN 0
    ELSE VolumeBefore(i - 1, type) + VolumeIn(cdr.charging_periods[i - 1], type)

\* the instant at which the i-th input period starts (i up to one more than
\* the number of periods: the end of the session), counted from the input
InstantAt(i) ==
    [local_timezone |-> Report.time_zone,
     date_time |->
        IF i <= Len(cdr.charging_periods)
        THEN cdr.charging_periods[i].start_date_time
        ELSE cdr.end_date_time,
     total_duration |->
        (IF i <= Len(cdr.charging_periods)
         THEN cdr.charging_periods[i].start_date_time
         ELSE cdr.end_date_time) - cdr.charging_periods[1].start_date_time,
     total_charging_duration |-> VolumeBefore(i, "TIME"),
     total_energy |-> VolumeBefore(i, "ENERGY")]

RECURSIVE SumPeriodCosts(_, _, _)
SumPeriodCosts(total, periods, i) ==
    IF i > Len(periods)
    THEN total
    ELSE SumPeriodCosts(AddCost(total, PeriodReportCost(periods[i])), periods, i + 1)

\* the periods of the report that have a cost
CostedPeriods == {i \in 1..PeriodCount : IsSome(PeriodReportCost(Report.periods[i]))}

\* C27: total_cost, when present, is the sum over the periods of
\* PeriodReport::cost, a period without a cost counting as zero: excl_vat
\* always, incl_vat when every period cost has one (and None otherwise);
\* total_cost is absent exactly when no period has a cost.
C27_TotalIsSumOverPeriods ==
    Priced =>
        /\ Report.total_cost = SumPeriodCosts(None, Report.periods, 1)
        /\ IsNone(Report.total_cost) <=> CostedPeriods = {}
        /\ IsSome(Report.total_cost) =>
            /\ IsSumOf(Unwrap(Report.total_cost),
                       [i \in CostedPeriods |->
                            Unwrap(PeriodReportCost(Report.periods[i])).excl_vat],
                       [i \in CostedPeriods |->
                            Unwrap(PeriodReportCost(Report.periods[i])).incl_vat],
                       CostedPeriods)
            /\ (\E i \in CostedPeriods :
                    IsNone(Unwrap(PeriodReportCost(Report.periods[i])).incl_vat))
                => IsNone(Unwrap(Report.total_cost).incl_vat)

\* two periods with a cost each, made of two dimensions, one of them costed
\* in one period only
C27_Witness ==
    /\ Priced
    /\ PeriodCount >= 2
    /\ Cardinality(CostedPeriods) >= 2
    /\ Cardinality(Present) >= 2
    /\ \E dim \in Present : Cardinality(Costed(dim)) = 1
    /\ \E dim \in Present : Cardinality(Costed(dim)) >= 2
    /\ \A i \in CostedPeriods : Unwrap(PeriodReportCost(Report.periods[i])).excl_vat > 0
    /\ IsSome(Unwrap(Report.total_cost).incl_vat)

\* a period without any cost beside a period with one
C27_WitnessAbsent ==
    /\ Priced
    /\ PeriodCount >= 2
    /\ CostedPeriods # {}
    /\ \E i \in 1..PeriodCount : i \notin CostedPeriods
    /\ Unwrap(Report.total_cost).excl_vat > 0

(***************************************************************************)
(* Properties of SpecPrice: the step sizes are applied without a panic     *)
(***************************************************************************)
\* the PeriodReports after the pass over the periods, before the step sizes
\* are applied
PeriodsAfterPass ==
    PeriodLoop(LoopStart, PricedTariff, PricedSession.periods, 1).periods

\* C28: build_report does not panic, and whenever the pass over the periods
\* recorded an anchor for energy, time or parking, the anchor's index is an
\* index of the list of PeriodReports and the billed_volume of the dimension
\* in that PeriodReport is present, before and after the step sizes are
\* applied.
C28_AnchorHasVolume ==
    Built =>
        /\ "panic" \notin DOMAIN Outcome
        /\ IsSome(Outcome.report) =>
            \A dim \in {"energy", "time", "parking_time"} :
                IsSome(AnchorOf(dim)) =>
                    LET index == Unwrap(AnchorOf(dim))[1]
                    IN  /\ index + 1 \in 1..Len(PeriodsAfterPass)
                        /\ Len(PeriodsAfterPass) = PeriodCount
                        /\ IsSome(DimensionOf(PeriodsAfterPass[index + 1].dimensions,
                                              dim).billed_volume)
                        /\ IsSome(Dim(index + 1, dim).billed_volume)

\* an energy component is active in both periods and only the first has an
\* energy volume: the anchor is the first period, and its volume is stepped
C28_Witness ==
    /\ Priced
    /\ PeriodCount = 2
    /\ IsSome(Dim(2, "energy").price)
    /\ IsNone(Dim(2, "energy").volume)
    /\ IsNone(Dim(2, "energy").billed_volume)
    /\ IsSome(AnchorOf("energy"))
    /\ Unwrap(AnchorOf("energy"))[1] = 0
    /\ Unwrap(Dim(1, "energy").billed_volume) > Unwrap(Dim(1, "energy").volume)

\* a time anchor and a parking anchor on different periods
C28_WitnessTwoAnchors ==
    /\ Priced
    /\ IsSome(AnchorOf("time"))
    /\ IsSome(AnchorOf("parking_time"))
    /\ Unwrap(AnchorOf("time"))[1] # Unwrap(AnchorOf("parking_time"))[1]

(***************************************************************************)
(* SpecLint: lint and normalize applied to one tariff of up to             *)
(* MaxLintElements elements, and the pricing of sessions with the tariff   *)
(* before and after normalize.                                             *)
(***************************************************************************)
MaxLintElements == 3

\* min_kwh bounds, in units of 1/KwhScale kWh as every energy of the model
MinKwh0 == Some([OcpiRestrictionNone EXCEPT !.min_kwh = Some(0)])

MinKwh10 == Some([OcpiRestrictionNone EXCEPT !.min_kwh = Some(10)])

\* day_of_week = [MONDAY]; the sessions start on a Thursday
OnMonday == Some([OcpiRestrictionNone EXCEPT !.day_of_week = <<0>>])

LintElements ==
    {MkElement(r, c) :
        r \in {None, MinKwh0, MinKwh10, OnMonday},
        c \in {<<Energy1>>, <<Energy2, Time1>>}}

LintTariffs ==
    {MkTariff("supplied", None, None, e) : e \in SeqsOf(LintElements, 1, MaxLintElements)}

LintCdrs ==
    {MkCdr(Amsterdam, v, <<>>) :
        v \in {<<<<Some(5), Some(1500), None>>>>,
               <<<<Some(12), Some(1500), None>>, <<Some(5), None, None>>>>}}

InitLint ==
    /\ cdr \in LintCdrs
    /\ \E tariff \in LintTariffs : supplied = <<tariff>>
    /\ pricer = PricerNew
    /\ result = None
    /\ warnings = None
    /\ unnormalized = None
    /\ at_end = None
    /\ validation = None

NextLint ==
    \/ Lint
    \/ Normalize
    \/ WithTariffs
    \/ BuildReport

SpecLint == InitLint /\ [][NextLint]_vars

\* the volume and cost totals of a report
Totals(report) ==
    <<report.total_cost, report.total_energy_cost, report.total_time_cost,
      report.total_parking_cost, report.total_fixed_cost, report.total_energy,
      report.total_charging_time, report.total_parking_time, report.total_time,
      report.billed_energy, report.billed_charging_time, report.billed_parking_time>>

\* the outcome of pricing the session with the tariffs as they were before
\* normalize
OutcomeUnnormalized == build_report([pricer EXCEPT !.tariffs = unnormalized], cdr)

\* C14: pricing a session with normalize(tariff) gives the same totals
\* (volumes and every cost total) as pricing it with the tariff before
\* normalize.
C14_NormalizeKeepsTotals ==
    (Built /\ IsSome(unnormalized) /\ pricer.tariffs = Some(supplied)) =>
        /\ IsSome(Outcome.report) <=> IsSome(OutcomeUnnormalized.report)
        /\ IsSome(Outcome.report) =>
                Totals(Report) = Totals(Unwrap(OutcomeUnnormalized.report))

\* the warnings of the last lint, as a set, and the tariff they are about
Warned == {Unwrap(warnings).warnings[i] : i \in 1..Len(Unwrap(warnings).warnings)}

Linted == Unwrap(warnings).tariff

\* lint reported element el (index from 0), or one of its components, as
\* redundant
ReportedRedundant(el) ==
    \E w \in Warned :
        /\ w.kind \in {"ComponentIsRedundant", "ElementIsRedundant"}
        /\ w.element_index = Some(el)

\* three elements with one energy component each, restricted by min_kwh = 0,
\* by min_kwh = 10 and not at all
IsMinKwhExample(tariff) ==
    /\ Len(tariff.elements) = 3
    /\ \A i \in 1..3 :
            /\ Len(tariff.elements[i].price_components) = 1
            /\ tariff.elements[i].price_components[1].component_type = "ENERGY"
    /\ tariff.elements[1].restrictions = MinKwh0
    /\ tariff.elements[2].restrictions = MinKwh10
    /\ tariff.elements[3].restrictions = None

\* C15: for energy elements restricted by min_kwh = 0, min_kwh = 10 and not
\* at all, lint reports the min_kwh = 10 element as redundant, no other
\* element or component of them, and does not report the energy dimension
\* as not exhaustive.
C15_MinKwhExample ==
    (IsSome(warnings) /\ IsMinKwhExample(Linted)) =>
        /\ ReportedRedundant(1)
        /\ ~ReportedRedundant(0)
        /\ ~ReportedRedundant(2)
        /\ DimensionNotExhaustive("ENERGY") \notin Warned

DimensionTypes == {"ENERGY", "FLAT", "TIME", "PARKING_TIME"}

\* C16: for each dimension d, lint reports ComponentIsRedundant, with the
\* element and component index, for exactly the unary elements of d that are
\* not useful below the rows above them, and DimensionNotExhaustive with
\* ty = d exactly when the wildcard row below d's rows is useful.
C16_LintRollUp ==
    IsSome(warnings) =>
        \A d \in DimensionTypes :
            LET elements == UnaryElements(Linted, d, 1)
                patterns == LintPatterns(elements)
            IN  /\ \A k \in 1..Len(elements) :
                        ComponentIsRedundant(elements[k].element_index,
                                             elements[k].component_index) \in Warned
                            <=> ~is_usefull(patterns, k)
                /\ DimensionNotExhaustive(d) \in Warned
                        <=> is_usefull(patterns, Len(patterns))

(***************************************************************************)
(* SpecSession: sessions built from CDRs whose charging periods and end    *)
(* are at any of a few instants, in any order; the CDR is deserialized     *)
(* without any check of the order of its timestamps.                       *)
(***************************************************************************)
SessionInstants == {SessionStart, SessionStart + PeriodLength}

SessionEnds == SessionInstants \cup {SessionStart + 2 * PeriodLength}

SessionVolumes == {<<e, t, None>> : e \in Options({5}), t \in Options({1500})}

SessionCdrs ==
    {[start_date_time |-> SessionStart,
      end_date_time |-> end,
      cdr_location |-> Amsterdam,
      charging_periods |-> [i \in 1..Len(starts) |-> MkPeriod(starts[i], volumes[i])],
      tariffs |-> <<>>] :
        end \in SessionEnds,
        starts \in SeqsOf(SessionInstants, 1, MaxPeriods),
        volumes \in SeqsOf(SessionVolumes, MaxPeriods, MaxPeriods)}

SessionTariffs ==
    {MkTariff("supplied", None, None, <<MkElement(None, c)>>) :
        c \in {<<Energy1>>, <<Energy2, Time1>>}}

InitSession ==
    /\ cdr \in SessionCdrs
    /\ \E tariff \in SessionTariffs : supplied = <<tariff>>
    /\ pricer = PricerNew
    /\ result = None
    /\ warnings = None
    /\ unnormalized = None
    /\ at_end = None
    /\ validation = None

SpecSession == InitSession /\ [][NextPrice]_vars

(***************************************************************************)
(* Properties of SpecSession                                               *)
(***************************************************************************)
\* C21: in every period of the session, end_instant.date_time is at or after
\* start_instant.date_time, and total_duration, total_charging_duration and
\* total_energy at end_instant are at least their values at start_instant.
C21_InstantsMonotone ==
    Priced =>
        \A i \in 1..Len(PricedSession.periods) :
            LET start == PricedSession.periods[i].start_instant
                end == PricedSession.periods[i].end_instant
            IN  /\ end.date_time >= start.date_time
                /\ end.total_duration >= start.total_duration
                /\ end.total_charging_duration >= start.total_charging_duration
                /\ end.total_energy >= start.total_energy

\* the same over the CDRs whose periods and end are in chronological order
Chronological ==
    /\ \A i \in 1..(Len(cdr.charging_periods) - 1) :
            cdr.charging_periods[i].start_date_time
                <= cdr.charging_periods[i + 1].start_date_time
    /\ cdr.charging_periods # <<>> =>
            cdr.charging_periods[Len(cdr.charging_periods)].start_date_time
                <= cdr.end_date_time

C21_MonotoneWhenChronological == Chronological => C21_InstantsMonotone

(***************************************************************************)
(* SpecBoundary: sessions around local midnight between Thursday           *)
(* 1970-01-01 and Friday 1970-01-02 (Europe/Amsterdam), priced with a      *)
(* tariff of one element under one restriction record; the element's       *)
(* activity is evaluated at the start and at the end of a period.          *)
(***************************************************************************)
HalfSecond == MILLIS_IN_SEC \div 2

\* local times of day
T0000 == 0 * MillisInHour

T0030 == T0000 + PeriodLength

T0600 == 6 * MillisInHour

T0700 == 7 * MillisInHour

T2200 == 22 * MillisInHour

T2330 == 23 * MillisInHour + PeriodLength

\* the UTC instant of local time t on local day d
AtLocal(d, t) == d * MillisInDay + t - UtcOffset("Europe/Amsterdam")

\* Thursday 23:30, Friday 00:00, 00:00:00.5, 00:30, 07:00 and 07:30
BoundaryInstants ==
    {AtLocal(0, T2330), AtLocal(1, T0000), AtLocal(1, T0000 + HalfSecond),
     AtLocal(1, T0030), AtLocal(1, T0700), AtLocal(1, T0700 + PeriodLength)}

\* the strictly increasing sequences over S of length lo..hi
IncreasingSeqs(S, lo, hi) ==
    {q \in SeqsOf(S, lo, hi) : \A i \in 1..(Len(q) - 1) : q[i] < q[i + 1]}

\* a CDR for each choice of period starts and session end among the instants
BoundaryCdrs ==
    {[start_date_time |-> q[1],
      end_date_time |-> q[Len(q)],
      cdr_location |-> Amsterdam,
      charging_periods |->
        [i \in 1..(Len(q) - 1) |-> MkPeriod(q[i], <<Some(5), None, None>>)],
      tariffs |-> <<>>] :
        q \in IncreasingSeqs(BoundaryInstants, 2, MaxPeriods + 1)}

Friday == Thursday + 1

BoundaryRestrictions ==
    {[OcpiRestrictionNone EXCEPT !.day_of_week = d] :
        d \in {<<Thursday>>, <<Friday>>, <<0>>, <<0, Thursday>>}}
    \cup {[OcpiRestrictionNone EXCEPT !.end_date = Some(d)] : d \in {0, 1, 2}}
    \cup {[OcpiRestrictionNone EXCEPT !.end_time = Some(t)] :
            t \in {T0000, T0030, T0700, T2330}}
    \cup {[OcpiRestrictionNone EXCEPT !.start_time = Some(b), !.end_time = Some(e)] :
            b \in {T0000, T0030, T2200, T2330}, e \in {T0000, T0030, T0600, T2330}}
    \cup {[OcpiRestrictionNone EXCEPT !.start_time = Some(T0030)],
          [OcpiRestrictionNone EXCEPT !.start_date = Some(1)]}
    \cup {[OcpiRestrictionNone EXCEPT !.reservation = Some(kind)] :
            kind \in {"RESERVATION", "RESERVATION_EXPIRES"}}
    \cup {[OcpiRestrictionNone EXCEPT !.reservation = Some("RESERVATION"),
                                      !.day_of_week = <<Thursday>>],
          [OcpiRestrictionNone EXCEPT !.reservation = Some("RESERVATION_EXPIRES"),
                                      !.end_time = Some(T0700)]}

BoundaryTariffs ==
    {MkTariff("supplied", None, None, <<MkElement(Some(r), <<Energy0>>)>>) :
        r \in BoundaryRestrictions}

InitBoundary ==
    /\ cdr \in BoundaryCdrs
    /\ \E tariff \in BoundaryTariffs : supplied = <<tariff>>
    /\ pricer = PricerNew
    /\ result = None
    /\ warnings = None
    /\ unnormalized = None
    /\ at_end = None
    /\ validation = None

NextBoundary ==
    \/ WithTariffs
    \/ BuildReport
    \/ IsActiveAtEnd

SpecBoundary == InitBoundary /\ [][NextBoundary]_vars

(***************************************************************************)
(* Properties of SpecBoundary                                              *)
(***************************************************************************)
\* the restriction record of the element evaluated
BoundaryRecord ==
    Unwrap(TariffsInUse[Report.tariff_index + 1].elements[Unwrap(at_end).element]
                .restrictions)

\* the period evaluated, its start and its end
BoundaryPeriod == PricedSession.periods[Unwrap(at_end).period]

StartOfPeriod == BoundaryPeriod.start_instant

EndOfPeriod == BoundaryPeriod.end_instant

ActiveAtStart == Unwrap(at_end).is_active

ActiveAtEnd == Unwrap(at_end).is_active_at_end

\* the record restricts by day_of_week, by end_date or by end_time only
OnlyDayOfWeek(r) ==
    r.day_of_week # <<>> /\ r = [OcpiRestrictionNone EXCEPT !.day_of_week = r.day_of_week]

OnlyEndDate(r) ==
    IsSome(r.end_date) /\ r = [OcpiRestrictionNone EXCEPT !.end_date = r.end_date]

OnlyEndTime(r) ==
    IsSome(r.end_time) /\ r = [OcpiRestrictionNone EXCEPT !.end_time = r.end_time]

\* the rules of the inclusive mode, midnight being given
InclusiveRules(r, instant, is_at_midnight) ==
    /\ OnlyDayOfWeek(r) =>
            (ActiveAtEnd <=>
                \/ local_weekday(instant) \in SeqRange(r.day_of_week)
                \/ /\ is_at_midnight
                   /\ WeekdayPred(local_weekday(instant)) \in SeqRange(r.day_of_week))
    /\ OnlyEndDate(r) =>
            (ActiveAtEnd <=>
                \/ local_date(instant) < Unwrap(r.end_date)
                \/ is_at_midnight /\ local_date(instant) = Unwrap(r.end_date))
    /\ OnlyEndTime(r) => (ActiveAtEnd <=> local_time(instant) <= Unwrap(r.end_time))

\* C22 as the specification states it: in inclusive mode, at local time 00:00
\* exactly, day_of_week also holds for the day before and end_date also holds
\* on end_date itself; at any other instant both hold as in exclusive mode;
\* end_time holds when the local time is at most end_time.
C22_AsStated ==
    IsSome(at_end) =>
        InclusiveRules(BoundaryRecord, EndOfPeriod, local_time(EndOfPeriod) = 0)

\* C22: in inclusive mode, during the first second after local midnight
\* (num_seconds_from_midnight = 0), day_of_week also holds for the day before
\* and end_date also holds on end_date itself; at any other instant both
\* hold as in exclusive mode; end_time holds when the local time is at most
\* end_time.
C22_InclusiveAtMidnight ==
    IsSome(at_end) =>
        InclusiveRules(BoundaryRecord, EndOfPeriod,
                       local_time(EndOfPeriod) < MILLIS_IN_SEC)

\* a period ending at 00:00 on Friday under day_of_week = [THURSDAY], active
\* at its end
C22_Witness ==
    /\ IsSome(at_end)
    /\ BoundaryRecord = [OcpiRestrictionNone EXCEPT !.day_of_week = <<Thursday>>]
    /\ local_time(EndOfPeriod) = 0
    /\ local_weekday(EndOfPeriod) = Friday
    /\ ActiveAtEnd

\* a period ending half a second after midnight on its end_date, active at
\* its end
C22_WitnessHalfSecond ==
    /\ IsSome(at_end)
    /\ OnlyEndDate(BoundaryRecord)
    /\ local_time(EndOfPeriod) = HalfSecond
    /\ local_date(EndOfPeriod) = Unwrap(BoundaryRecord.end_date)
    /\ ActiveAtEnd

\* a period ending at 00:30 on its end_date, not active at its end
C22_WitnessAfterMidnight ==
    /\ IsSome(at_end)
    /\ OnlyEndDate(BoundaryRecord)
    /\ local_time(EndOfPeriod) = T0030
    /\ local_date(EndOfPeriod) = Unwrap(BoundaryRecord.end_date)
    /\ ~ActiveAtEnd

\* the record has a start_time and an end_time
HasBothTimes(r) == IsSome(r.start_time) /\ IsSome(r.end_time)

\* the restrictions collected for the element evaluated
Collected == PricedTariff.elements[Unwrap(at_end).element].restrictions

\* t is in the wrapping interval from start_time to end_time of r
InWrappingTime(r, t) == t >= Unwrap(r.start_time) \/ t < Unwrap(r.end_time)

\* C23: start_time and end_time with end_time < start_time are collected as
\* one WrappingTime restriction and no StartTime or EndTime; it holds at
\* local time t exactly when t >= start_time or t < end_time, at the start
\* of a period (exclusive mode) and at its end (inclusive mode) alike.
C23_WrappingTime ==
    (/\ IsSome(at_end)
     /\ HasBothTimes(BoundaryRecord)
     /\ Unwrap(BoundaryRecord.end_time) < Unwrap(BoundaryRecord.start_time)) =>
        /\ Collected = <<[kind |-> "WrappingTime",
                          v |-> [start_time |-> Unwrap(BoundaryRecord.start_time),
                                 end_time |-> Unwrap(BoundaryRecord.end_time)]]>>
        /\ ActiveAtStart <=> InWrappingTime(BoundaryRecord, local_time(StartOfPeriod))
        /\ ActiveAtEnd <=> InWrappingTime(BoundaryRecord, local_time(EndOfPeriod))
        /\ IsSome(Dim(Unwrap(at_end).period, "energy").price) <=> ActiveAtStart

\* 22:00-06:00: a period starting at local 23:30 qualifies
C23_Witness ==
    /\ IsSome(at_end)
    /\ BoundaryRecord.start_time = Some(T2200)
    /\ BoundaryRecord.end_time = Some(T0600)
    /\ local_time(StartOfPeriod) = T2330
    /\ ActiveAtStart
    /\ IsSome(Dim(Unwrap(at_end).period, "energy").price)

\* 22:00-06:00: a period starting at local 07:00 does not qualify
C23_WitnessOutside ==
    /\ IsSome(at_end)
    /\ BoundaryRecord.start_time = Some(T2200)
    /\ BoundaryRecord.end_time = Some(T0600)
    /\ local_time(StartOfPeriod) = T0700
    /\ ~ActiveAtStart
    /\ IsNone(Dim(Unwrap(at_end).period, "energy").price)

\* C30: start_time equal to end_time does not wrap: it is collected as
\* StartTime(t) followed by EndTime(t), which no local time satisfies in
\* exclusive mode, so the element is active at the start of no period and
\* its component prices no period.
C30_EqualTimesNeverActive ==
    (/\ IsSome(at_end)
     /\ HasBothTimes(BoundaryRecord)
     /\ BoundaryRecord.end_time = BoundaryRecord.start_time) =>
        /\ Collected = <<[kind |-> "StartTime", v |-> Unwrap(BoundaryRecord.start_time)],
                         [kind |-> "EndTime", v |-> Unwrap(BoundaryRecord.end_time)]>>
        /\ ~ActiveAtStart
        /\ \A i \in 1..PeriodCount : \A dim \in Dims : IsNone(Dim(i, dim).price)
        /\ IsNone(Report.total_cost)

\* start_time = end_time = 00:30 and a period starting at local 00:30
C30_Witness ==
    /\ IsSome(at_end)
    /\ BoundaryRecord.start_time = Some(T0030)
    /\ BoundaryRecord.end_time = Some(T0030)
    /\ local_time(StartOfPeriod) = T0030
    /\ ~ActiveAtStart
    /\ IsSome(Dim(Unwrap(at_end).period, "energy").volume)
    /\ IsNone(Dim(Unwrap(at_end).period, "energy").price)

\* the restriction record of the supplied tariff's element
SuppliedRecord == Unwrap(supplied[1].elements[1].restrictions)

\* the element with the reservation field of its restrictions absent
ElementWithoutReservation(element) ==
    IF IsSome(element.restrictions)
    THEN [element EXCEPT !.restrictions =
            Some([Unwrap(element.restrictions) EXCEPT !.reservation = None])]
    ELSE element

\* the tariffs with the reservation field absent everywhere
WithoutReservation(tariffs) ==
    [t \in 1..Len(tariffs) |->
        [tariffs[t] EXCEPT !.elements =
            [k \in 1..Len(tariffs[t].elements) |->
                ElementWithoutReservation(tariffs[t].elements[k])]]]

\* the restrictions collected for every element of the tariffs
AllCollected(tariffs) ==
    UNION {UNION {SeqRange(TariffNew(tariffs[t]).elements[k].restrictions) :
                    k \in 1..Len(tariffs[t].elements)} :
            t \in 1..Len(tariffs)}

\* C29: collect_restrictions never produces Restriction::Reservation, so
\* build_report on a tariff whose restrictions set the reservation field
\* does not reach the unimplemented branch of period_validity and returns
\* what it returns for the same tariff with the reservation field absent.
C29_ReservationNeverEvaluated ==
    (/\ IsSome(result)
     /\ IsSome(pricer.tariffs)
     /\ IsSome(SuppliedRecord.reservation)) =>
        /\ \A r \in AllCollected(Unwrap(pricer.tariffs)) : r.kind # "Reservation"
        /\ "panic" \notin DOMAIN Unwrap(result)
        /\ Unwrap(result) =
                build_report([pricer EXCEPT !.tariffs =
                                    Some(WithoutReservation(Unwrap(pricer.tariffs)))], cdr)

\* a tariff restricted to reservations prices the energy of a period
C29_Witness ==
    /\ IsSome(result)
    /\ IsSome(pricer.tariffs)
    /\ SuppliedRecord = [OcpiRestrictionNone EXCEPT !.reservation = Some("RESERVATION")]
    /\ IsSome(Outcome.report)
    /\ \E i \in 1..PeriodCount : IsSome(Dim(i, "energy").price)

\* the reservation field beside a DayOfWeek restriction that selects one
\* period and not another
C29_WitnessWithDayOfWeek ==
    /\ IsSome(result)
    /\ IsSome(pricer.tariffs)
    /\ IsSome(SuppliedRecord.reservation)
    /\ SuppliedRecord.day_of_week = <<Thursday>>
    /\ IsSome(Outcome.report)
    /\ \E i, j \in 1..PeriodCount :
            IsSome(Dim(i, "energy").price) /\ IsNone(Dim(j, "energy").price)

(***************************************************************************)
(* SpecDuplicate: lint and pricing of one tariff of up to                  *)
(* MaxDuplicateElements elements, which have no component, one component,  *)
(* or several components of the same dimension                             *)
(***************************************************************************)
MaxDuplicateElements == 2

DuplicateElements ==
    {MkElement(r, c) :
        r \in {None, MinKwh10},
        c \in {<<>>, <<Energy1>>, <<Energy1, Energy2>>, <<Energy2, Time1, Energy1>>,
               <<Time1, Time2, Time1>>}}

DuplicateTariffs ==
    {MkTariff("supplied", None, None, e) :
        e \in SeqsOf(DuplicateElements, 1, MaxDuplicateElements)}

InitDuplicate ==
    /\ cdr \in LintCdrs
    /\ \E tariff \in DuplicateTariffs : supplied = <<tariff>>
    /\ pricer = PricerNew
    /\ result = None
    /\ warnings = None
    /\ unnormalized = None
    /\ at_end = None
    /\ validation = None

NextDuplicate ==
    \/ Lint
    \/ WithTariffs
    \/ BuildReport

SpecDuplicate == InitDuplicate /\ [][NextDuplicate]_vars

(***************************************************************************)
(* Properties of SpecDuplicate                                             *)
(***************************************************************************)
\* lint finds component c of element el (indexes from 0) redundant: it
\* follows a component of the same type in the element, or its row is not
\* useful below the rows of its dimension above it
FoundRedundant(tariff, el, c) ==
    LET element == tariff.elements[el + 1]
        type == element.price_components[c + 1].component_type
        unary == UnaryElements(tariff, type, 1)
    IN  \/ c + 1 \notin FirstOfType(element)
        \/ \E k \in 1..Len(unary) :
                /\ unary[k].element_index = el
                /\ unary[k].component_index = c
                /\ ~is_usefull(LintPatterns(unary), k)

\* every component of element el is found redundant, and there is one
EveryComponentRedundant(tariff, el) ==
    /\ tariff.elements[el + 1].price_components # <<>>
    /\ \A c \in 0..(Len(tariff.elements[el + 1].price_components) - 1) :
            FoundRedundant(tariff, el, c)

\* how often warning w occurs in the result of lint
Occurrences(w) ==
    Cardinality({i \in 1..Len(Unwrap(warnings).warnings) : Unwrap(warnings).warnings[i] = w})

\* C24: lint reports ElementIsRedundant for an element exactly when it has
\* no price components or every one of its price components was found
\* redundant; no ComponentIsRedundant of such an element remains, and
\* ElementIsRedundant is reported at most once per element.
C24_ElementIsRedundant ==
    IsSome(warnings) =>
        \A el \in 0..(Len(Linted.elements) - 1) :
            /\ ElementIsRedundant(el) \in Warned
                    <=> \/ Linted.elements[el + 1].price_components = <<>>
                        \/ EveryComponentRedundant(Linted, el)
            /\ ElementIsRedundant(el) \in Warned =>
                    \A w \in Warned :
                        ~(w.kind = "ComponentIsRedundant" /\ w.element_index = Some(el))
            /\ Occurrences(ElementIsRedundant(el)) <= 1

\* an element without components, an element rolled up because its two
\* components are redundant, and ahead of them an element that is useful
C24_Witness ==
    /\ IsSome(warnings)
    /\ Len(Linted.elements) = 2
    /\ Linted.elements[1] = MkElement(None, <<Energy2, Time1, Energy1>>)
    /\ Linted.elements[2] = MkElement(MinKwh10, <<Energy1, Energy2>>)
    /\ ComponentIsRedundant(0, 2) \in Warned
    /\ ElementIsRedundant(0) \notin Warned
    /\ ElementIsRedundant(1) \in Warned

\* an element that has no components
C24_WitnessEmpty ==
    /\ IsSome(warnings)
    /\ Linted.elements[1].price_components = <<>>
    /\ Occurrences(ElementIsRedundant(0)) = 1

\* the components (indexes from 0) that follow a component of their type in
\* their element
Duplicates(tariff) ==
    UNION {{<<el - 1, c - 1>> :
                c \in (1..Len(tariff.elements[el].price_components))
                        \ FirstOfType(tariff.elements[el])} :
            el \in 1..Len(tariff.elements)}

\* the subsequence of seq at the indexes in S, from the i-th on
RECURSIVE Keep(_, _, _)
Keep(seq, S, i) ==
    IF i > Len(seq)
    THEN <<>>
    ELSE (IF i \in S THEN <<seq[i]>> ELSE <<>>) \o Keep(seq, S, i + 1)

\* the tariff with only the first component of each type in every element
Deduplicated(tariff) ==
    [tariff EXCEPT !.elements =
        [el \in 1..Len(tariff.elements) |->
            [tariff.elements[el] EXCEPT !.price_components =
                Keep(tariff.elements[el].price_components,
                     FirstOfType(tariff.elements[el]), 1)]]]

TypeOf(dim) ==
    CASE dim = "flat" -> "FLAT"
      [] dim = "energy" -> "ENERGY"
      [] dim = "time" -> "TIME"
      [] dim = "parking_time" -> "PARKING_TIME"

\* the price of every dimension of every period is the first component of
\* the dimension's type in its element, and the outcome is that of the
\* tariff without the later components
FirstComponentPrices ==
    (Built /\ pricer.tariffs = Some(supplied)) =>
        /\ Outcome = build_report([pricer EXCEPT !.tariffs =
                                    Some(<<Deduplicated(supplied[1])>>)], cdr)
        /\ IsSome(Outcome.report) =>
            \A i \in 1..PeriodCount : \A dim \in Dims :
                IsSome(Dim(i, dim).price) =>
                    LET price == Unwrap(Dim(i, dim).price)
                        element == supplied[1].elements[price.tariff_element_index + 1]
                        first == CHOOSE j \in FirstOfType(element) :
                                    element.price_components[j].component_type = TypeOf(dim)
                    IN  price = PriceComponentNew(element.price_components[first],
                                                  price.tariff_element_index)

\* C25 as stated: the pricer uses the first component of a dimension in an
\* element, and lint reports every later one as ComponentIsRedundant with
\* its component index.
C25_AsStated ==
    /\ FirstComponentPrices
    /\ IsSome(warnings) =>
            \A d \in Duplicates(Linted) : ComponentIsRedundant(d[1], d[2]) \in Warned

\* C25: the pricer uses the first component of a dimension in an element;
\* lint reports every later one as ComponentIsRedundant with its component
\* index, unless every component of the element is redundant, in which case
\* it reports ElementIsRedundant for the element and no ComponentIsRedundant.
C25_DuplicatesIgnored ==
    /\ FirstComponentPrices
    /\ IsSome(warnings) =>
            \A d \in Duplicates(Linted) :
                IF EveryComponentRedundant(Linted, d[1])
                THEN /\ ElementIsRedundant(d[1]) \in Warned
                     /\ ComponentIsRedundant(d[1], d[2]) \notin Warned
                ELSE ComponentIsRedundant(d[1], d[2]) \in Warned

\* TIME, TIME, TIME in one element: the two later components are reported
\* and the first prices the period
C25_Witness ==
    /\ IsSome(warnings)
    /\ Priced
    /\ pricer.tariffs = Some(supplied)
    /\ supplied[1].elements[1] = MkElement(None, <<Time1, Time2, Time1>>)
    /\ {ComponentIsRedundant(0, 1), ComponentIsRedundant(0, 2)} \subseteq Warned
    /\ Unwrap(Dim(1, "time").price) = PriceComponentNew(Time1, 0)

\* ENERGY, ENERGY in an element below an unrestricted energy element: the
\* whole element is reported
C25_WitnessRolledUp ==
    /\ IsSome(warnings)
    /\ Len(Linted.elements) = 2
    /\ Linted.elements[1] = MkElement(None, <<Energy1>>)
    /\ Linted.elements[2] = MkElement(None, <<Energy1, Energy2>>)
    /\ ElementIsRedundant(1) \in Warned
    /\ ComponentIsRedundant(1, 1) \notin Warned

(***************************************************************************)
(* SpecValidate: the validate command on CDRs that carry totals, which     *)
(* are those of the calculation or differ from them; the tariff is in a    *)
(* tariff file or in the CDR, or there is none                             *)
(***************************************************************************)
ValidateTariffs ==
    {MkTariff("supplied", None, None, <<MkElement(None, c)>>) :
        c \in {<<Energy1>>, <<Energy2, Time1>>}}

\* the report of the calculation for a CDR without totals
Calculated(base, tariff) ==
    Unwrap(build_report(load_all_pricer(Some(tariff), None), base).report)

NoCost == [excl_vat |-> 0, incl_vat |-> None]

\* the totals a CDR may carry beside a calculation that gives report
TotalsBeside(report) ==
    {[total_time |-> total_time,
      total_parking_time |-> total_parking_time,
      total_energy |-> total_energy,
      total_cost |-> total_cost,
      total_energy_cost |-> total_energy_cost,
      total_time_cost |-> None,
      total_fixed_cost |-> None,
      total_parking_cost |-> None,
      total_reservation_cost |-> None] :
        total_time \in {report.total_time, report.total_time + MILLIS_IN_SEC},
        total_parking_time \in {None, Some(report.total_parking_time),
                                Some(report.total_parking_time + MILLIS_IN_SEC)},
        total_energy \in {report.total_energy, report.total_energy + 1},
        total_cost \in {UnwrapOr(report.total_cost, NoCost), NoCost},
        total_energy_cost \in {None, report.total_energy_cost, Some(NoCost)}}

\* the CDRs with a tariff file, with the tariff in the CDR, and without a
\* tariff
ValidateInputsOf(v, tariff) ==
    UNION {{<<MkCdr(Amsterdam, v, <<>>) @@ totals, <<tariff>>>>,
            <<MkCdr(Amsterdam, v, <<tariff>>) @@ totals, <<>>>>,
            <<MkCdr(Amsterdam, v, <<>>) @@ totals, <<>>>>} :
        totals \in UNION {TotalsBeside(report) :
                            report \in {Calculated(MkCdr(Amsterdam, v, <<>>), tariff)}}}

\* the CDR and the tariff file, if any, given to the command
ValidateInputs ==
    UNION {ValidateInputsOf(v, tariff) :
        v \in {<<<<Some(5), Some(1500), None>>>>,
               <<<<Some(12), Some(1500), None>>, <<Some(5), None, None>>>>},
        tariff \in ValidateTariffs}

InitValidate ==
    /\ \E input \in ValidateInputs : cdr = input[1] /\ supplied = input[2]
    /\ pricer = PricerNew
    /\ result = None
    /\ warnings = None
    /\ unnormalized = None
    /\ at_end = None
    /\ validation = None

NextValidate == Validate

SpecValidate == InitValidate /\ [][NextValidate]_vars

(***************************************************************************)
(* Properties of SpecValidate                                              *)
(***************************************************************************)
\* every total of the report equals the total present in the CDR: the two
\* volumes and total_time always, total_cost when the report has one, the
\* parking time when the CDR has one, and the costs per dimension when both
\* have one
AllTotalsEqual ==
    /\ Report.total_time = cdr.total_time
    /\ IsSome(cdr.total_parking_time) =>
            Unwrap(cdr.total_parking_time) = Report.total_parking_time
    /\ Report.total_energy = cdr.total_energy
    /\ IsSome(Report.total_cost) => Unwrap(Report.total_cost) = cdr.total_cost
    /\ \A pair \in {<<Report.total_time_cost, cdr.total_time_cost>>,
                    <<Report.total_fixed_cost, cdr.total_fixed_cost>>,
                    <<Report.total_energy_cost, cdr.total_energy_cost>>,
                    <<Report.total_parking_cost, cdr.total_parking_cost>>} :
            (IsSome(pair[1]) /\ IsSome(pair[2])) => pair[1] = pair[2]

\* C26: when the calculation succeeds, validate reports that it matches all
\* totals in the CDR, with exit status 0, whenever every total of the report
\* equals the corresponding total present in the CDR, and reports a mismatch,
\* with exit status 1, only when a compared total differs.
C26_ValidateMatches ==
    (IsSome(validation) /\ Priced) =>
        /\ AllTotalsEqual =>
                Unwrap(validation) = [message |-> "matches", exit_code |-> 0]
        /\ Unwrap(validation).message = "does not match" => ~AllTotalsEqual

====
